---- MODULE Spec2Model ----
(***************************************************************************)
(* State-machine model of the OAuth / PKCE handshake of the repository:    *)
(* the browser components (TwitterLogin, GitHubLogin, AuthCallback,        *)
(* GitHubCallback) that share localStorage, and the Express routes         *)
(* (api/twitter and api/github) that talk to the identity providers.       *)
(*                                                                         *)
(* Strings that the code transforms character by character (verifier,      *)
(* challenge, state, URL parameter values) are sequences of one-character  *)
(* strings.  A value that JavaScript treats as falsy in the code's guards  *)
(* (null, undefined, "") is the empty sequence Null.                       *)
(***************************************************************************)
EXTENDS Integers, Sequences, FiniteSets, TLC

\* ------------------------------------------------------------------ bounds
\* Number of login clicks (TwitterLogin.handleLogin, GitHubLogin.handleLogin)
MaxLogins == 1
\* Number of loads of a callback page (AuthCallback, GitHubCallback)
MaxCallbacks == 2
\* Number of random bytes behind a verifier (32 in the code)
VerifierBytes == 1
\* Number of bytes of a digest (32 for SHA-256)
DigestLen == 2
\* Number of clicks on the proof page's submit button
MaxRuns == 2
MaxChecks == 1
MaxRequests == 2
\* Number of clicks on submit when the toolchain's calls all settle
MaxFairRuns == 1
\* Number of login clicks, and of callback pages loaded, in a browser session
\* that also logs out and disconnects
MaxAttempts == 2
MaxReturns == 1

Null == <<>>

\* ------------------------------------------------------------ pure helpers
HexDigits == <<"0","1","2","3","4","5","6","7","8","9","a","b","c","d","e","f">>

\* b.toString(16).padStart(2, '0')
ByteToHex(b) == <<HexDigits[(b \div 16) + 1], HexDigits[(b % 16) + 1]>>

RECURSIVE BytesToHex(_)
BytesToHex(bytes) ==
    IF bytes = <<>> THEN <<>>
    ELSE ByteToHex(Head(bytes)) \o BytesToHex(Tail(bytes))

\* TextEncoder.encode of one character of a hex string (its ASCII code)
CharCode(c) ==
    LET i == CHOOSE k \in 1..16 : HexDigits[k] = c
    IN  IF i <= 10 THEN 47 + i ELSE 86 + i

\* TextEncoder.encode
TextEncode(s) == [i \in 1..Len(s) |-> CharCode(s[i])]

RECURSIVE WeightedSum(_, _, _)
WeightedSum(data, i, j) ==
    IF j > Len(data) THEN 0
    ELSE data[j] * (j + 7 * i) + WeightedSum(data, i, j + 1)

\* crypto.subtle.digest('SHA-256', data): the external hash primitive, here a
\* deterministic stand-in that maps a byte string to DigestLen bytes.
Sha256(data) ==
    [i \in 1..DigestLen |-> (131 * i + 89 * WeightedSum(data, i, 1)) % 256]

B64Std ==
    <<"A","B","C","D","E","F","G","H","I","J","K","L","M","N","O","P",
      "Q","R","S","T","U","V","W","X","Y","Z","a","b","c","d","e","f",
      "g","h","i","j","k","l","m","n","o","p","q","r","s","t","u","v",
      "w","x","y","z","0","1","2","3","4","5","6","7","8","9","+","/">>

\* btoa(String.fromCharCode(...bytes)): standard base64 with '=' padding
RECURSIVE Btoa(_)
Btoa(b) ==
    IF Len(b) = 0 THEN <<>>
    ELSE IF Len(b) = 1 THEN
        <<B64Std[(b[1] \div 4) + 1], B64Std[((b[1] % 4) * 16) + 1], "=", "=">>
    ELSE IF Len(b) = 2 THEN
        <<B64Std[(b[1] \div 4) + 1],
          B64Std[((b[1] % 4) * 16) + (b[2] \div 16) + 1],
          B64Std[((b[2] % 16) * 4) + 1], "=">>
    ELSE
        <<B64Std[(b[1] \div 4) + 1],
          B64Std[((b[1] % 4) * 16) + (b[2] \div 16) + 1],
          B64Std[((b[2] % 16) * 4) + (b[3] \div 64) + 1],
          B64Std[(b[3] % 64) + 1]>> \o Btoa(SubSeq(b, 4, Len(b)))

\* s.replace(/from/g, to) for a one-character pattern
ReplaceAll(s, from, to) == [i \in 1..Len(s) |-> IF s[i] = from THEN to ELSE s[i]]

\* s.replace(/=+$/, '')
RECURSIVE StripTrailingPad(_)
StripTrailingPad(s) ==
    IF Len(s) > 0 /\ s[Len(s)] = "=" THEN StripTrailingPad(SubSeq(s, 1, Len(s) - 1))
    ELSE s

\* Variant of ChallengeEncode: the standard, padded base64 text as btoa gives it
ChallengeEncode_Btoa(hashArray) == Btoa(hashArray)

\* btoa(...).replace(/\+/g, '-').replace(/\//g, '_').replace(/=+$/, '')
ChallengeEncode(hashArray) ==
    StripTrailingPad(ReplaceAll(ReplaceAll(Btoa(hashArray), "+", "-"), "/", "_"))

\* generatePKCEChallenge, from the random bytes it drew
GeneratePKCEChallenge(array) ==
    LET verifier == BytesToHex(array)
        hash == Sha256(TextEncode(verifier))
    IN  [verifier |-> verifier, challenge |-> ChallengeEncode(hash)]

\* ------------------------------------------------------------ input sets
\* Values crypto.getRandomValues puts in the bytes of a verifier, by draw
RandomByteSeq == <<100, 48, 7, 255>>

\* The array the n-th crypto.getRandomValues(new Uint8Array(..)) leaves behind: a
\* cryptographically random value does not repeat an earlier one
FreshArray(n) ==
    [i \in 1..VerifierBytes |-> RandomByteSeq[((n - 1) % Len(RandomByteSeq)) + 1]]

\* Values of a state nonce (crypto.randomUUID in the browser,
\* crypto.randomBytes(..).toString('hex') on the server)
StateSeq == << <<"a", "1">>, <<"b", "2">>, <<"c", "3">>, <<"d", "4">> >>

\* The n-th draw of a state nonce: a cryptographically random value does not
\* repeat an earlier one
FreshState(n) == StateSeq[((n - 1) % Len(StateSeq)) + 1]

\* Authorization codes a redirect may carry in ?code=
Codes == {<<"c", "1">>}

\* The state values a callback page may be loaded with: the first two draws
QueryStates == {FreshState(1), FreshState(2)}

\* The query strings ?code=..&state=.. a callback page is loaded with: a code
\* with a state or none, and a missing code
Queries ==
    {[code |-> c, state |-> st] : c \in Codes, st \in QueryStates \cup {Null}}
    \cup {[code |-> Null, state |-> FreshState(1)]}

\* Access tokens a provider may issue
Tokens == {<<"t", "k">>}

\* String(undefined), what localStorage.setItem and a template literal make of a
\* missing property
Undefined == <<"undefined">>

\* JSON values: a string, or an object as the sequence of its properties in
\* insertion order
JStr(str) == [t |-> "str", s |-> str, o |-> <<>>]

JObj(props) == [t |-> "obj", s |-> "", o |-> props]

Prop(key, value) == [k |-> key, v |-> value]

\* The other JSON values: a number, an array as the sequence of its elements,
\* and null
JNum(n) == [t |-> "num", n |-> n]

JArr(elems) == [t |-> "arr", a |-> elems]

JNull == [t |-> "null"]

\* The JavaScript values that are no JSON values: undefined, and a Uint8Array
\* as the sequence of its bytes
JUndefined == [t |-> "undefined"]

Uint8Array(bytes) == [t |-> "Uint8Array", b |-> bytes]

\* The resource object of the provider (response.data.data of GET /2/users/me)
UserDatas ==
    {JObj(<<Prop("id", JStr("1")), Prop("created_at", JStr("2023-01-01"))>>)}

Providers == {"twitter", "github"}

\* What a provider (or the network in front of it) may answer to the server's
\* POST to its token endpoint
ProviderTokenOutcomes ==
    {[status |-> 200, access_token |-> t, error |-> ""] : t \in Tokens}
    \cup {[status |-> 200, access_token |-> Null, error |-> "bad_verification_code"],
          [status |-> 400, access_token |-> Null, error |-> "invalid_grant"]}

NoUserData == JObj(<<>>)

\* What a provider may answer to the server's GET of the user resource
ProviderUserOutcomes ==
    {[status |-> 200, data |-> u] : u \in UserDatas}
    \cup {[status |-> st, data |-> NoUserData] : st \in {401, 503}}

\* response.ok of fetch / the range axios resolves on
Ok(status) == status >= 200 /\ status <= 299

\* ------------------------------------------------------------ URL building
\* One character as URLSearchParams.toString() writes it
\* (application/x-www-form-urlencoded)
PercentEncode(c) ==
    CASE c = " " -> <<"+">>
      [] c = "+" -> <<"%", "2", "B">>
      [] c = "/" -> <<"%", "2", "F">>
      [] c = "=" -> <<"%", "3", "D">>
      [] c = ":" -> <<"%", "3", "A">>
      [] OTHER   -> <<c>>

RECURSIVE FormUrlEncode(_)
FormUrlEncode(s) ==
    IF s = <<>> THEN <<>>
    ELSE PercentEncode(Head(s)) \o FormUrlEncode(Tail(s))

\* new URLSearchParams({...}).toString(): the pairs in insertion order
SearchParams(pairs) ==
    [i \in 1..Len(pairs) |-> [k |-> pairs[i].k, v |-> FormUrlEncode(pairs[i].v)]]

NoUrl == [base |-> "", query |-> <<>>]

\* url.searchParams.get(name) restricted to "is there such a parameter"
HasParam(url, name) == \E i \in 1..Len(url.query) : url.query[i].k = name

\* The raw text of a query parameter of a URL
ParamText(url, name) ==
    LET i == CHOOSE j \in 1..Len(url.query) : url.query[j].k = name
    IN  url.query[i].v

\* server/config.ts exits the process at start-up unless the client ids are set
TwitterClientIdSet == TRUE
GitHubClientIdSet == TRUE

RedirectUriTwitter == <<"http", ":", "/", "/", "localhost", ":", "5174", "/", "callback">>
RedirectUriGitHub == <<"http", ":", "/", "/", "localhost", ":", "5173", "/", "github-callback">>

\* ---------------------------------------------------------- server routes
\* Responses are [status, url, access_token, error, data]; a field a response
\* does not carry is Null / "" / NoUrl / NoSigned.
NoSigned == [twitter_data |-> NoUserData, messageHash |-> <<>>,
             signature |-> <<>>, publicKey |-> ""]

Response(status, url, token, error, data) ==
    [status |-> status, url |-> url, access_token |-> token, error |-> error,
     data |-> data]

ErrorResponse(status, error) == Response(status, NoUrl, Null, error, NoSigned)

\* fetch rejected: the request never produced an HTTP response
NetworkFailure == ErrorResponse(0, "")

\* Variant of TwitterAuthRoute: the URL always carries a state of the server's
\* own making
TwitterAuthRoute_OwnState(body, rnd) ==
    IF body.code_challenge = Null THEN
        ErrorResponse(400, "Code challenge is required")
    ELSE
        Response(200,
            [base  |-> "https://twitter.com/i/oauth2/authorize",
             query |-> SearchParams(<<
                [k |-> "response_type", v |-> <<"code">>],
                [k |-> "client_id", v |-> <<"TWITTER_CLIENT_ID">>],
                [k |-> "redirect_uri", v |-> RedirectUriTwitter],
                [k |-> "scope", v |-> <<"tweet.read", " ", "users.read">>],
                [k |-> "code_challenge", v |-> body.code_challenge],
                [k |-> "code_challenge_method", v |-> <<"S256">>],
                [k |-> "state", v |-> rnd]
             >>)],
            Null, "", NoSigned)

\* POST /api/twitter/auth; rnd is what crypto.randomBytes(32).toString('hex')
\* returns if it is called
TwitterAuthRoute(body, rnd) ==
    IF body.code_challenge = Null THEN
        ErrorResponse(400, "Code challenge is required")
    ELSE IF ~TwitterClientIdSet THEN
        ErrorResponse(500, "Twitter client configuration missing")
    ELSE
        Response(200,
            [base  |-> "https://twitter.com/i/oauth2/authorize",
             query |-> SearchParams(<<
                [k |-> "response_type", v |-> <<"code">>],
                [k |-> "client_id", v |-> <<"TWITTER_CLIENT_ID">>],
                [k |-> "redirect_uri", v |-> RedirectUriTwitter],
                [k |-> "scope", v |-> <<"tweet.read", " ", "users.read">>],
                [k |-> "code_challenge", v |-> body.code_challenge],
                [k |-> "code_challenge_method", v |-> <<"S256">>],
                [k |-> "state", v |-> IF body.state # Null THEN body.state ELSE rnd]
             >>)],
            Null, "", NoSigned)

\* Variant of TwitterTokenRoute: a rejected POST to the provider is sent a
\* second time before the route gives up
TwitterTokenRoute_Retry(body, outcome) ==
    IF body.code = Null \/ body.code_verifier = Null THEN
        [posts |-> 0, res |-> ErrorResponse(400, "Code and code verifier are required")]
    ELSE IF Ok(outcome.status) THEN
        [posts |-> 1,
         res |-> Response(200, NoUrl, outcome.access_token, outcome.error, NoSigned)]
    ELSE
        [posts |-> 2, res |-> ErrorResponse(500, "Failed to exchange token")]

\* POST /api/twitter/token; outcome is the provider's answer to the one
\* axios.post the handler makes (axios rejects on a non-2xx status and on a
\* network failure, which the catch turns into the 500)
TwitterTokenRoute(body, outcome) ==
    IF body.code = Null \/ body.code_verifier = Null THEN
        [posts |-> 0, res |-> ErrorResponse(400, "Code and code verifier are required")]
    ELSE IF Ok(outcome.status) THEN
        [posts |-> 1,
         res |-> Response(200, NoUrl, outcome.access_token, outcome.error, NoSigned)]
    ELSE
        [posts |-> 1, res |-> ErrorResponse(500, "Failed to exchange token")]

\* const key = ec.genKeyPair(): the key pair of the server process
SigningKey == "key"

\* The property names that occur, in the order Array.prototype.sort puts
\* strings (by UTF-16 code unit)
KeyOrder == <<"created_at", "followers_count", "id", "public_metrics">>

\* Object.keys(obj): the names of the properties in insertion order
ObjectKeys(obj) == [i \in 1..Len(obj.o) |-> obj.o[i].k]

\* keys.sort()
SortKeys(keys) ==
    SelectSeq(KeyOrder, LAMBDA k : \E i \in 1..Len(keys) : keys[i] = k)

HasProp(obj, key) == \E i \in 1..Len(obj.o) : obj.o[i].k = key

GetProp(obj, key) == obj.o[CHOOSE i \in 1..Len(obj.o) : obj.o[i].k = key].v

\* JSON.stringify(value, list) with an array as replacer: list is the property
\* list of the serialization, used for the object at every level; an object's
\* properties are written in the order of list, and a property whose name is
\* not in list is left out.  The text is a sequence of tokens.
RECURSIVE JsonStringify(_, _)
RECURSIVE JsonMembers(_, _, _)
JsonMembers(obj, list, i) ==
    IF i > Len(list) THEN <<>>
    ELSE (IF HasProp(obj, list[i])
          THEN <<",", list[i], ":">> \o JsonStringify(GetProp(obj, list[i]), list)
          ELSE <<>>) \o JsonMembers(obj, list, i + 1)

JsonStringify(value, list) ==
    IF value.t = "str" THEN <<"\"", value.s, "\"">>
    ELSE LET members == JsonMembers(value, list, 1)
         IN  <<"{">> \o (IF members = <<>> THEN <<>> ELSE Tail(members)) \o <<"}">>

\* Variant of SerializeUserData: the property list is not sorted
SerializeUserData_Unsorted(userData) ==
    JsonStringify(userData, ObjectKeys(userData))

\* JSON.stringify(userData, Object.keys(userData).sort())
SerializeUserData(userData) ==
    JsonStringify(userData, SortKeys(ObjectKeys(userData)))

\* Variant of MsgHash: a digest that does not depend on the text
MsgHash_Constant(serializedData) == <<"sha256">>

\* crypto.createHash('sha256').update(serializedData).digest()
MsgHash(serializedData) == <<"sha256">> \o serializedData

\* key.sign(msgHash)
EcSign(msgHash, k) == <<k>> \o msgHash

\* publicKey.verify(msgHash, signature): a signature verifies for the hash it
\* was made over, under the key of its pair
EcVerify(msgHash, signature, publicKey) == signature = EcSign(msgHash, publicKey)

\* Variant of SignUserData: a key pair of its own for every resource signed
SignUserData_KeyPerResource(userData) ==
    LET msgHash == MsgHash(SerializeUserData(userData))
        ownKey == GetProp(userData, "id").s
    IN  [twitter_data |-> userData, messageHash |-> msgHash,
         signature |-> EcSign(msgHash, ownKey), publicKey |-> ownKey]

\* The signing of router.get('/user'): the signed payload of a resource
SignUserData(userData) ==
    LET msgHash == MsgHash(SerializeUserData(userData))
    IN  [twitter_data |-> userData, messageHash |-> msgHash,
         signature |-> EcSign(msgHash, SigningKey), publicKey |-> SigningKey]

\* Variant of TwitterUserHandled: the Authorization header is not looked at
TwitterUserHandled_NoGuard(auth, outcome) ==
    IF Ok(outcome.status) THEN
        [gets |-> 1, signed |-> TRUE,
         res |-> Response(200, NoUrl, Null, "", SignUserData(outcome.data))]
    ELSE
        [gets |-> 1, signed |-> FALSE,
         res |-> ErrorResponse(500, "Failed to fetch or sign user data")]

\* GET /api/twitter/user; auth is the Authorization header, outcome the
\* provider's answer to the one axios.get the handler makes.  gets is the
\* number of requests sent to the provider, signed whether key.sign was called
TwitterUserHandled(auth, outcome) ==
    IF auth.scheme # "Bearer" THEN
        [gets |-> 0, signed |-> FALSE,
         res |-> ErrorResponse(401, "Invalid authorization header")]
    ELSE IF Ok(outcome.status) THEN
        [gets |-> 1, signed |-> TRUE,
         res |-> Response(200, NoUrl, Null, "", SignUserData(outcome.data))]
    ELSE
        [gets |-> 1, signed |-> FALSE,
         res |-> ErrorResponse(500, "Failed to fetch or sign user data")]

\* The response of GET /api/twitter/user
TwitterUserRoute(auth, outcome) == TwitterUserHandled(auth, outcome).res

\* POST /api/github/auth; rnd is crypto.randomBytes(16).toString('hex')
GitHubAuthRoute(rnd) ==
    IF ~GitHubClientIdSet THEN
        ErrorResponse(500, "GitHub client configuration missing")
    ELSE
        Response(200,
            [base  |-> "https://github.com/login/oauth/authorize",
             query |-> SearchParams(<<
                [k |-> "client_id", v |-> <<"GITHUB_CLIENT_ID">>],
                [k |-> "redirect_uri", v |-> RedirectUriGitHub],
                [k |-> "scope", v |-> <<"read", ":", "user", " ", "repo">>],
                [k |-> "state", v |-> rnd],
                [k |-> "response_type", v |-> <<"code">>],
                [k |-> "allow_signup", v |-> <<"true">>]
             >>)],
            Null, "", NoSigned)

\* POST /api/github/token: the state of the body is read and never used
GitHubTokenRoute(body, outcome) ==
    IF body.code = Null THEN
        [posts |-> 0, res |-> ErrorResponse(400, "Code is required")]
    ELSE IF Ok(outcome.status) THEN
        [posts |-> 1,
         res |-> Response(200, NoUrl, outcome.access_token, outcome.error, NoSigned)]
    ELSE
        [posts |-> 1, res |-> ErrorResponse(500, "Failed to exchange GitHub token")]

\* GET /api/github/user: the provider's resource is passed on as it is
GitHubUserHandled(auth, outcome) ==
    IF auth.scheme # "Bearer" THEN
        [gets |-> 0, signed |-> FALSE,
         res |-> ErrorResponse(401, "Invalid authorization header")]
    ELSE IF Ok(outcome.status) THEN
        [gets |-> 1, signed |-> FALSE,
         res |-> Response(200, NoUrl, Null, "", [github_data |-> outcome.data])]
    ELSE
        [gets |-> 1, signed |-> FALSE,
         res |-> ErrorResponse(500, "Failed to fetch GitHub user data")]

TokenRoute(provider, body, outcome) ==
    IF provider = "twitter" THEN TwitterTokenRoute(body, outcome)
    ELSE GitHubTokenRoute(body, outcome)

\* ------------------------------------------------------------------ state
\* The two provider flows share no state: they use different localStorage keys
\* and the server keeps nothing between requests.  A behaviour follows one
\* browser session through the flow of one provider, flow.  A request, the
\* route's handling of it and the provider's answer all happen while the
\* sending component is suspended in its fetch and touch nothing the browser
\* holds, so they are part of the action that sends the request; the component
\* resumes in a later action.
VARIABLES
    flow,        \* the provider this browser session signs in with
    storage,     \* the browser's localStorage, shared by every component
    twLogin,     \* the TwitterLogin component: position and locals of handleLogin
    ghLogin,     \* the GitHubLogin component: position and locals of handleLogin
    cb,          \* the callback components, by page load: position and locals
    nLogins,     \* login clicks so far
    nCallbacks,  \* callback pages loaded so far
    sessionId,   \* history: which login click wrote the stored session (0: none)
    issued,      \* history: the state values issued when a login was started
    app,         \* the view App rendered, and the login sections the home page hides
    signer,      \* one attestation: the resource signed, and its verification
    noir,        \* proof / verification page: the module variable noir (0: undefined)
    backend,     \* proof / verification page: the module variable backend
    pageInit,    \* proof / verification page: the initializeNoir() call of the page load
    runs,        \* proof page: the click handlers, by click: position and locals
    nRuns,       \* proof page: clicks on submit so far
    ageProof,    \* proof page: localStorage's ageProof
    resultDiv,   \* proof / verification page: the message the result element shows
    toolFault,   \* history: a call of the toolchain has misbehaved
    checks,      \* verification page: the click handlers, by click
    nChecks,     \* verification page: clicks on verify so far
    requests,    \* server: history: the requests handled, by arrival
    nRequests,   \* server: requests handled so far
    serverLog    \* server: what console.log and console.error have written

\* The variables of the OAuth handshake
authVars == <<flow, storage, twLogin, ghLogin, cb, nLogins, nCallbacks, sessionId,
              issued, app>>

\* The variables the OAuth handshake does not touch
nonAuthVars == <<signer, noir, backend, pageInit, runs, nRuns, ageProof, resultDiv,
                 toolFault, checks, nChecks, requests, nRequests, serverLog>>

\* The variables of the verification page that the proof page does not have
verifyVars == <<checks, nChecks>>

\* The variables of the server process
serverVars == <<requests, nRequests, serverLog>>

\* The variables of the proof page
proofVars == <<noir, backend, pageInit, runs, nRuns, ageProof, resultDiv, toolFault>>

vars == <<authVars, nonAuthVars>>

NoResponse == ErrorResponse(0, "")

NoUpstream == [status |-> 0, error |-> "", access_token |-> Null]

NoBody == [code |-> Null]

\* A callback component that does not exist yet.  A component that has returned
\* from handleCallback keeps its outcome (pc, error); its locals are dead and
\* are reset, as are the locals a handler does not read again.
\*   body, res: the request the component is suspended on and its response
\*   upstream, posts: history: the provider's answer to the route, and the
\*                    number of requests the route sent to the provider
\*   sent: history: the number of token requests the component has sent
\*   sid: history: the login click whose session went out in the token request
IdleCallback ==
    [provider |-> "", pc |-> "unused", code |-> Null, state |-> Null, sid |-> 0,
     body |-> NoBody, res |-> NoResponse, upstream |-> NoUpstream, posts |-> 0,
     sent |-> 0, error |-> ""]

Returned(c, pc, error) ==
    [IdleCallback EXCEPT !.provider = c.provider, !.pc = pc, !.error = error,
                         !.sent = c.sent, !.sid = c.sid]

IdleTwLogin ==
    [pc |-> "idle", verifier |-> Null,
     body |-> [code_challenge |-> Null, state |-> Null], res |-> NoResponse]

IdleGhLogin == [pc |-> "idle", res |-> NoResponse]

\* The pages before they have loaded: App has rendered no view, and the home
\* page hides no login section
AppUnloaded == [view |-> "unloaded", hidden |-> {}]

\* A click handler that has not been started.  A handler that has returned
\* keeps what it showed; its locals are dead and are reset.
\*   age: the parsed input; witness, proof: the click whose executor / prover
\*   call returned the value the local holds (0: none)
\*   cause: history: what ended the handler
\*   init: history: how the getCircuit() of the handler's initializeNoir() ended
IdleRun ==
    [pc |-> "unused", age |-> 0, witness |-> 0, proof |-> 0, shown |-> "",
     cause |-> "", init |-> ""]

\* localStorage.getItem('ageProof') is null: the text of no item
NoArtifact == <<>>

\* The proof page with no handler started; pc is the position of the page
\* load's initializeNoir() ("unloaded": the page is not open)
ProofPageIdle(pc) ==
    /\ noir = 0
    /\ backend = 0
    /\ pageInit = [pc |-> pc]
    /\ runs = [r \in 1..MaxRuns |-> IdleRun]
    /\ nRuns = 0
    /\ ageProof = NoArtifact
    /\ resultDiv = ""
    /\ toolFault = FALSE

\* A verify click handler that has not been started.  A handler that has
\* returned keeps what it showed; its locals are dead and are reset.
\*   text: the content of the proof textarea; proofData: what parseProofData
\*   returned; cause: history: what ended the handler
NoProofData == [proof |-> Uint8Array(<<>>), publicInputs |-> JArr(<<>>)]

IdleCheck ==
    [pc |-> "unused", text |-> <<>>, proofData |-> NoProofData, shown |-> "",
     cause |-> ""]

\* The verification page with no handler started
VerifyPageIdle ==
    /\ checks = [k \in 1..MaxChecks |-> IdleCheck]
    /\ nChecks = 0

\* The body of a request as express.json() parses it, with Null for a
\* property the body does not have, and its Authorization header
ServerBody(challenge, state, code, verifier) ==
    [code_challenge |-> challenge, state |-> state, code |-> code,
     code_verifier |-> verifier]

NoAuthHeader == [scheme |-> "", token |-> Null]

\* A request the server has not received.  Of a request it has handled:
\*   body, auth: what it carried; status: the status of the response;
\*   contacted: the number of requests the route sent to the provider;
\*   signed: whether the route called key.sign
IdleRequest ==
    [route |-> "", body |-> ServerBody(Null, Null, Null, Null),
     auth |-> NoAuthHeader, status |-> 0, contacted |-> 0, signed |-> FALSE,
     attestation |-> NoSigned]

\* The server process after start-up
ServerIdle ==
    /\ requests = [n \in 1..MaxRequests |-> IdleRequest]
    /\ nRequests = 0
    /\ serverLog = <<>>

\* No resource has reached the signing of router.get('/user')
IdleSigner ==
    [pc |-> "idle", userData |-> NoUserData, att |-> NoSigned,
     kind |-> "", presented |-> NoUserData, valid |-> FALSE]

Init ==
    /\ flow \in Providers
    /\ storage = [pkce_verifier |-> Null, oauth_state |-> Null,
                  twitter_token |-> Null, twitter_signed_data |-> NoSigned,
                  github_token |-> Null]
    /\ twLogin = IdleTwLogin
    /\ ghLogin = IdleGhLogin
    /\ cb = [c \in 1..MaxCallbacks |-> IdleCallback]
    /\ nLogins = 0
    /\ nCallbacks = 0
    /\ sessionId = 0
    /\ issued = {}
    /\ app = AppUnloaded
    /\ signer = IdleSigner
    /\ ProofPageIdle("unloaded")
    /\ VerifyPageIdle
    /\ ServerIdle

\* ------------------------------------------------------- TwitterLogin
\* Variant of storeAuthState: a verifier already in storage is kept
StoreAuthState_KeepVerifier(store, verifier, state) ==
    [store EXCEPT !.pkce_verifier = IF @ = Null THEN verifier ELSE @,
                  !.oauth_state = state]

\* storeAuthState
StoreAuthState(store, verifier, state) ==
    [store EXCEPT !.pkce_verifier = verifier, !.oauth_state = state]

\* The JSON body of getAuthorizationUrl's POST
AuthRequestBody(challenge, state) ==
    [code_challenge |-> challenge, state |-> state]

\* A click on "Sign in with Twitter" while fewer than limit logins were
\* started: handleLogin up to the fetch of getAuthorizationUrl, which
\* POST /api/twitter/auth answers unless the request fails on the way
TwLoginClick(limit) ==
    /\ flow = "twitter"
    /\ twLogin.pc \in {"idle", "redirected", "error"}
    /\ nLogins < limit
    /\ LET pkce == GeneratePKCEChallenge(FreshArray(nLogins + 1))
           state == FreshState(nLogins + 1)
           body == AuthRequestBody(pkce.challenge, state)
       IN  /\ storage' = StoreAuthState(storage, pkce.verifier, state)
           /\ \E res \in {TwitterAuthRoute(body, FreshState(nLogins + 2)),
                           NetworkFailure} :
                    twLogin' = [pc |-> "urlResp", verifier |-> pkce.verifier,
                                body |-> body, res |-> res]
    /\ nLogins' = nLogins + 1
    /\ sessionId' = nLogins + 1
    /\ issued' = issued \cup {FreshState(nLogins + 1)}
    /\ UNCHANGED <<nonAuthVars, app, flow, ghLogin, cb, nCallbacks>>

\* A click on "Sign in with Twitter"
TwLoginStart == TwLoginClick(MaxLogins)

\* getAuthorizationUrl after the fetch, and the rest of handleLogin: the page
\* navigates to the URL, or the error is shown
TwLoginResp ==
    /\ twLogin.pc = "urlResp"
    /\ twLogin' = [IdleTwLogin EXCEPT
                     !.pc = IF Ok(twLogin.res.status) THEN "redirected" ELSE "error"]
    /\ UNCHANGED <<nonAuthVars, app, flow, storage, ghLogin, cb, nLogins, nCallbacks, sessionId,
                   issued>>

\* -------------------------------------------------------- GitHubLogin
\* A click on "Connect GitHub": handleLogin up to the fetch, which
\* POST /api/github/auth answers unless the request fails on the way
GhLoginClick(limit) ==
    /\ flow = "github"
    /\ ghLogin.pc \in {"idle", "redirected", "error"}
    /\ nLogins < limit
    /\ nLogins' = nLogins + 1
    /\ \/ LET rnd == FreshState(nLogins + 1)
          IN  /\ ghLogin' = [pc |-> "urlResp", res |-> GitHubAuthRoute(rnd)]
              /\ issued' = issued \cup {rnd}
       \/ /\ ghLogin' = [pc |-> "urlResp", res |-> NetworkFailure]
          /\ UNCHANGED issued
    /\ UNCHANGED <<nonAuthVars, app, flow, storage, twLogin, cb, nCallbacks, sessionId>>

\* A click on "Connect GitHub"
GhLoginStart == GhLoginClick(MaxLogins)

\* handleLogin's checks on the response and on the URL it carries
GitHubUrlAccepted(res) ==
    /\ Ok(res.status)
    /\ res.url # NoUrl
    /\ HasParam(res.url, "client_id")
    /\ HasParam(res.url, "state")
    /\ ParamText(res.url, "client_id") # Null
    /\ ParamText(res.url, "state") # Null

\* handleLogin after the fetch: the page navigates to the URL, or the error is
\* shown
GhLoginResp ==
    /\ ghLogin.pc = "urlResp"
    /\ ghLogin' = [IdleGhLogin EXCEPT
                     !.pc = IF GitHubUrlAccepted(ghLogin.res) THEN "redirected"
                            ELSE "error"]
    /\ UNCHANGED <<nonAuthVars, app, flow, storage, twLogin, cb, nLogins, nCallbacks, sessionId,
                   issued>>

\* ------------------------------------------------- callback components
\* String(x) of a value that may be undefined
ToStr(x) == IF x = Null THEN Undefined ELSE x

\* Variant of SessionCheck: the state of the redirect is required and not
\* compared
SessionCheck_NoCompare(code, verifier, state, storedState) ==
    IF code = Null \/ verifier = Null \/ state = Null \/ storedState = Null
    THEN "Missing required parameters"
    ELSE "ok"

\* AuthCallback.handleCallback: the two guards before the token request
SessionCheck(code, verifier, state, storedState) ==
    IF code = Null \/ verifier = Null \/ state = Null \/ storedState = Null
    THEN "Missing required parameters"
    ELSE IF state # storedState THEN "Invalid state parameter"
    ELSE "ok"

\* AuthCallback.handleCallback: the JSON body of the token request
TwitterTokenBody(code, verifier, state) ==
    [code |-> code, code_verifier |-> verifier]

\* GitHubCallback.handleCallback: the guard before the token request
GitHubCodeCheck(code, state) ==
    IF code = Null THEN "No code received from GitHub" ELSE "ok"

\* GitHubCallback.handleCallback: the JSON body of the token request
GitHubTokenBody(code, state) == [code |-> code, state |-> state]

\* The browser loads /callback or /github-callback with the query
\* ?code=..&state=.. (a redirect of the provider, or any link followed)
CbLoadUpTo(limit) ==
    /\ nCallbacks < limit
    /\ nCallbacks' = nCallbacks + 1
    /\ \E q \in Queries :
          cb' = [cb EXCEPT ![nCallbacks + 1] =
                    [IdleCallback EXCEPT !.provider = flow, !.pc = "loaded",
                                         !.code = q.code, !.state = q.state]]
    /\ UNCHANGED <<nonAuthVars, app, flow, storage, twLogin, ghLogin, nLogins, sessionId, issued>>

\* A callback page is loaded
CbLoad == CbLoadUpTo(MaxCallbacks)

\* What comes back from the fetch of /api/<provider>/token: the route's answer
\* for some answer of the provider, or a failure of the request on the way
TokenExchanges(provider, body) ==
    {[res |-> TokenRoute(provider, body, outcome).res,
      posts |-> TokenRoute(provider, body, outcome).posts,
      upstream |-> [status |-> outcome.status, error |-> outcome.error,
                    access_token |-> outcome.access_token]] :
        outcome \in ProviderTokenOutcomes}
    \cup {[res |-> NetworkFailure, posts |-> 0, upstream |-> NoUpstream]}

\* handleCallback up to its first fetch
CbStart(c) ==
    /\ cb[c].pc = "loaded"
    /\ LET me == cb[c]
           verifier == storage.pkce_verifier
           storedState == storage.oauth_state
           check == IF me.provider = "twitter"
                    THEN SessionCheck(me.code, verifier, me.state, storedState)
                    ELSE GitHubCodeCheck(me.code, me.state)
           body == IF me.provider = "twitter"
                   THEN TwitterTokenBody(me.code, verifier, me.state)
                   ELSE GitHubTokenBody(me.code, me.state)
       IN  IF check # "ok" THEN
               cb' = [cb EXCEPT ![c] = Returned(me, "failed", check)]
           ELSE
               \E x \in TokenExchanges(me.provider, body) :
                  cb' = [cb EXCEPT ![c] = [me EXCEPT
                           !.pc = "tokenResp", !.code = Null,
                           !.sid = IF me.provider = "twitter" THEN sessionId ELSE 0,
                           !.body = body, !.res = x.res, !.posts = @ + x.posts,
                           !.sent = @ + 1, !.upstream = x.upstream]]
    /\ UNCHANGED <<nonAuthVars, app, flow, storage, twLogin, ghLogin, nLogins, nCallbacks, sessionId,
                   issued>>

\* Variant of TwitterAfterToken: the token of the response is stored before the
\* status is looked at
TwitterAfterToken_StoreFirst(store, res) ==
    LET stored == [store EXCEPT !.twitter_token = ToStr(res.access_token)]
    IN  IF res.status = 0 THEN [error |-> "Failed to fetch", storage |-> store]
        ELSE IF ~Ok(res.status) THEN
            [error |-> "Failed to exchange code for token", storage |-> stored]
        ELSE [error |-> "", storage |-> stored]

\* AuthCallback.handleCallback from the token response to the user-data fetch:
\* the error thrown ("" if none) and localStorage afterwards
TwitterAfterToken(store, res) ==
    IF res.status = 0 THEN [error |-> "Failed to fetch", storage |-> store]
    ELSE IF ~Ok(res.status) THEN
        [error |-> "Failed to exchange code for token", storage |-> store]
    ELSE [error |-> "",
          storage |-> [store EXCEPT !.twitter_token = ToStr(res.access_token)]]

\* GitHubCallback.handleCallback after the token response; the text the thrown
\* error appends to its message (the server's error text) is only logged
GitHubAfterToken(store, res) ==
    IF res.status = 0 THEN [error |-> "Failed to fetch", storage |-> store]
    ELSE IF ~Ok(res.status) THEN
        [error |-> "Failed to exchange code for token", storage |-> store]
    ELSE IF res.access_token # Null THEN
        [error |-> "", storage |-> [store EXCEPT !.github_token = res.access_token]]
    ELSE [error |-> "No access token received", storage |-> store]

\* What comes back from the fetch of /api/twitter/user
UserFetches(auth) ==
    {[res |-> TwitterUserRoute(auth, outcome),
      upstream |-> [status |-> outcome.status, error |-> "",
                    access_token |-> Null]] :
        outcome \in ProviderUserOutcomes}
    \cup {[res |-> NetworkFailure, upstream |-> NoUpstream]}

\* The callback component resumes with the token response; AuthCallback goes
\* on to fetch the signed user data
CbTokenResp(c) ==
    /\ cb[c].pc = "tokenResp"
    /\ LET me == cb[c]
           after == IF me.provider = "twitter"
                    THEN TwitterAfterToken(storage, me.res)
                    ELSE GitHubAfterToken(storage, me.res)
           auth == [scheme |-> "Bearer", token |-> ToStr(me.res.access_token)]
       IN  /\ storage' = after.storage
           /\ IF after.error # "" THEN
                  cb' = [cb EXCEPT ![c] = Returned(me, "failed", after.error)]
              ELSE IF me.provider = "github" THEN
                  cb' = [cb EXCEPT ![c] = Returned(me, "done", "")]
              ELSE \E x \in UserFetches(auth) :
                  cb' = [cb EXCEPT ![c] = [me EXCEPT
                           !.pc = "userResp", !.state = Null, !.body = NoBody,
                           !.res = x.res, !.upstream = x.upstream, !.posts = 0]]
    /\ UNCHANGED <<nonAuthVars, app, flow, twLogin, ghLogin, nLogins, nCallbacks, sessionId, issued>>

\* AuthCallback.handleCallback after the user-data response
TwitterAfterUser(store, res) ==
    IF res.status = 0 THEN [error |-> "Failed to fetch", storage |-> store]
    ELSE IF ~Ok(res.status) THEN [error |-> "Failed to fetch user data", storage |-> store]
    ELSE [error |-> "",
          storage |-> [store EXCEPT !.twitter_signed_data = res.data,
                                    !.pkce_verifier = Null,
                                    !.oauth_state = Null]]

\* AuthCallback resumes with the user-data response
CbUserResp(c) ==
    /\ cb[c].pc = "userResp"
    /\ LET me == cb[c]
           after == TwitterAfterUser(storage, me.res)
       IN  /\ storage' = after.storage
           /\ cb' = [cb EXCEPT ![c] =
                 IF after.error # "" THEN Returned(me, "failed", after.error)
                 ELSE Returned(me, "done", "")]
           /\ sessionId' = IF after.error = "" THEN 0 ELSE sessionId
    /\ UNCHANGED <<nonAuthVars, app, flow, twLogin, ghLogin, nLogins, nCallbacks, issued>>

Next ==
    \/ TwLoginStart
    \/ TwLoginResp
    \/ GhLoginStart
    \/ GhLoginResp
    \/ CbLoad
    \/ \E c \in 1..MaxCallbacks : CbStart(c)
    \/ \E c \in 1..MaxCallbacks : CbTokenResp(c)
    \/ \E c \in 1..MaxCallbacks : CbUserResp(c)

Spec == Init /\ [][Next]_vars

\* ------------------------------------------- logout and disconnect
\* App.render: isAuthenticated
IsAuthenticated(store) ==
    store.twitter_token # Null /\ store.twitter_signed_data # NoSigned

\* The localStorage key of a provider's token
TokenKey(provider) == IF provider = "twitter" THEN "twitter_token" ELSE "github_token"

\* AuthStatus.render and updateLoginVisibility: the provider's token is truthy
Connected(store, provider) == store[TokenKey(provider)] # Null

\* Variant of ClearAuthData: the token is left in storage
ClearAuthData_KeepToken(store) ==
    [store EXCEPT !.twitter_signed_data = NoSigned,
                  !.pkce_verifier = Null, !.oauth_state = Null]

\* AuthenticatedView.handleLogout: removeItem for each of STORAGE_KEYS
ClearAuthData(store) ==
    [store EXCEPT !.twitter_signed_data = NoSigned, !.twitter_token = Null,
                  !.pkce_verifier = Null, !.oauth_state = Null]

\* The disconnect handler's removeItem
RemoveToken(store, provider) == [store EXCEPT ![TokenKey(provider)] = Null]

\* updateLoginVisibility: the login sections hidden afterwards
HiddenLogins(store) == {provider \in Providers : Connected(store, provider)}

\* The page with <app-root> loads: App's constructor renders the
\* authenticated view or the login view
AppRender ==
    /\ app' = [app EXCEPT !.view = IF IsAuthenticated(storage) THEN "authenticated"
                                   ELSE "login"]
    /\ UNCHANGED <<nonAuthVars, flow, storage, twLogin, ghLogin, cb, nLogins, nCallbacks,
                   sessionId, issued>>

\* A click on "Logout" in the authenticated view: handleLogout, which ends in
\* a reload of the page
Logout ==
    /\ app.view = "authenticated"
    /\ storage' = ClearAuthData(storage)
    /\ sessionId' = 0
    /\ app' = [app EXCEPT !.view = "unloaded"]
    /\ UNCHANGED <<nonAuthVars, flow, twLogin, ghLogin, cb, nLogins, nCallbacks, issued>>

\* The home page loads, or a storage event reaches it: updateLoginVisibility
UpdateLoginVisibility ==
    /\ app' = [app EXCEPT !.hidden = HiddenLogins(storage)]
    /\ UNCHANGED <<nonAuthVars, flow, storage, twLogin, ghLogin, cb, nLogins, nCallbacks,
                   sessionId, issued>>

\* A click on a disconnect button of AuthStatus; the button is rendered for a
\* provider whose token is stored.  The handler removes the token and
\* dispatches auth-status-changed, on which updateLoginVisibility runs
Disconnect(provider) ==
    /\ Connected(storage, provider)
    /\ storage' = RemoveToken(storage, provider)
    /\ app' = [app EXCEPT !.hidden = HiddenLogins(storage')]
    /\ UNCHANGED <<nonAuthVars, flow, twLogin, ghLogin, cb, nLogins, nCallbacks,
                   sessionId, issued>>

\* A browser session with up to MaxAttempts login clicks and MaxReturns
\* callback pages, in which the user also logs out and disconnects
SessionNext ==
    \/ TwLoginClick(MaxAttempts)
    \/ TwLoginResp
    \/ GhLoginClick(MaxAttempts)
    \/ GhLoginResp
    \/ CbLoadUpTo(MaxReturns)
    \/ \E c \in 1..MaxCallbacks : CbStart(c)
    \/ \E c \in 1..MaxCallbacks : CbTokenResp(c)
    \/ \E c \in 1..MaxCallbacks : CbUserResp(c)
    \/ AppRender
    \/ UpdateLoginVisibility
    \/ Logout
    \/ \E provider \in Providers : Disconnect(provider)

SessionSpec == Init /\ [][SessionNext]_vars

\* ------------------------------------------------------------ attestation
\* The signing of router.get('/user') as a function of the resource the
\* provider returned, and the verification of what a client presents with the
\* signature (the Verification Process of the technical documentation).

\* The arrangements of a sequence
Arrangements(seq) ==
    {[i \in 1..Len(seq) |-> seq[f[i]]] : f \in Permutations(1..Len(seq))}

\* The JSON values with the properties of value, in any order at every level
RECURSIVE PermuteKeys(_)
PermuteKeys(value) ==
    IF value.t = "str" THEN {value}
    ELSE LET n == Len(value.o)
             inner == {f \in [1..n -> UNION {PermuteKeys(value.o[i].v) : i \in 1..n}] :
                          \A i \in 1..n : f[i] \in PermuteKeys(value.o[i].v)}
         IN  UNION {{JObj(q) : q \in Arrangements(
                                [i \in 1..n |-> Prop(value.o[i].k, f[i])])} :
                    f \in inner}

\* Values a client may put in place of the value of a field
TamperValues == {"1", "2"}

\* The JSON values that differ from value in the value of one field, at any
\* depth
RECURSIVE Tampered(_)
Tampered(value) ==
    IF value.t = "str" THEN {JStr(x) : x \in TamperValues \ {value.s}}
    ELSE UNION {{JObj([value.o EXCEPT ![i] = Prop(value.o[i].k, w)]) :
                    w \in Tampered(value.o[i].v)} : i \in 1..Len(value.o)}

\* Resources of the provider, up to the order of their properties: flat, with
\* public_metrics (the route asks for user.fields created_at,public_metrics),
\* and with a nested property that has the name of a top-level one
BaseUserDatas ==
    {JObj(<<Prop("id", JStr("1")), Prop("created_at", JStr("2023-01-01"))>>),
     JObj(<<Prop("id", JStr("1")), Prop("created_at", JStr("2023-01-01")),
            Prop("public_metrics",
                 JObj(<<Prop("followers_count", JStr("10"))>>))>>),
     JObj(<<Prop("id", JStr("1")),
            Prop("public_metrics",
                 JObj(<<Prop("followers_count", JStr("10")),
                        Prop("id", JStr("7"))>>))>>)}

\* response.data.data: the resources in every order of their properties
SignedUserDatas == UNION {PermuteKeys(u) : u \in BaseUserDatas}

SignInit ==
    /\ flow = "twitter"
    /\ storage = [pkce_verifier |-> Null, oauth_state |-> Null,
                  twitter_token |-> Null, twitter_signed_data |-> NoSigned,
                  github_token |-> Null]
    /\ twLogin = IdleTwLogin
    /\ ghLogin = IdleGhLogin
    /\ cb = [c \in 1..MaxCallbacks |-> IdleCallback]
    /\ nLogins = 0
    /\ nCallbacks = 0
    /\ sessionId = 0
    /\ issued = {}
    /\ app = AppUnloaded
    /\ \E u \in SignedUserDatas : signer = [IdleSigner EXCEPT !.userData = u]
    /\ ProofPageIdle("unloaded")
    /\ VerifyPageIdle
    /\ ServerIdle

\* router.get('/user') signs the resource and returns the signed payload
SignerSign ==
    /\ signer.pc = "idle"
    /\ signer' = [signer EXCEPT !.pc = "signed", !.att = SignUserData(signer.userData)]
    /\ UNCHANGED <<authVars, proofVars, verifyVars, serverVars>>

\* A client presents the payload as it received it
PresentSame ==
    /\ signer.pc = "signed"
    /\ signer' = [signer EXCEPT !.pc = "presented", !.kind = "same",
                                !.presented = signer.att.twitter_data]
    /\ UNCHANGED <<authVars, proofVars, verifyVars, serverVars>>

\* A client presents the payload with its properties in another order
PresentPermuted ==
    /\ signer.pc = "signed"
    /\ \E q \in PermuteKeys(signer.att.twitter_data) \ {signer.att.twitter_data} :
          signer' = [signer EXCEPT !.pc = "presented", !.kind = "permuted",
                                  !.presented = q]
    /\ UNCHANGED <<authVars, proofVars, verifyVars, serverVars>>

\* A client presents the payload with the value of one field changed
PresentTampered ==
    /\ signer.pc = "signed"
    /\ \E q \in Tampered(signer.att.twitter_data) :
          signer' = [signer EXCEPT !.pc = "presented", !.kind = "tampered",
                                  !.presented = q]
    /\ UNCHANGED <<authVars, proofVars, verifyVars, serverVars>>

\* The digest recomputed from a payload, as the verifier computes it
RecomputedHash(userData) == MsgHash(SerializeUserData(userData))

\* The verifier recomputes the digest of what was presented and verifies the
\* signature of the attestation under its public key
VerifierCheck ==
    /\ signer.pc = "presented"
    /\ signer' = [signer EXCEPT !.pc = "verified",
                     !.valid = EcVerify(RecomputedHash(signer.presented),
                                        signer.att.signature, signer.att.publicKey)]
    /\ UNCHANGED <<authVars, proofVars, verifyVars, serverVars>>

SignNext ==
    \/ SignerSign
    \/ PresentSame
    \/ PresentPermuted
    \/ PresentTampered
    \/ VerifierCheck

SignSpec == SignInit /\ [][SignNext]_vars

\* ------------------------------------------------------------- proof page
\* index.js: the page compiles the circuit when it loads (initializeNoir) and
\* each click on submit runs the handler, which suspends at every call of the
\* toolchain.  An action is the run of a handler between two suspensions.

\* What the user may have typed in the age field
AgeTexts == {<<"2", "5">>, <<"1", "0">>, <<"3", "0", "0">>, <<"-", "1">>, <<>>}

DecimalDigits == <<"0", "1", "2", "3", "4", "5", "6", "7", "8", "9">>

IsDigit(c) == \E d \in 1..10 : DecimalDigits[d] = c

DigitValue(c) == (CHOOSE d \in 1..10 : DecimalDigits[d] = c) - 1

\* The value of the leading decimal digits of text, after acc
RECURSIVE LeadingDigits(_, _)
LeadingDigits(text, acc) ==
    IF text = <<>> \/ ~IsDigit(Head(text)) THEN acc
    ELSE LeadingDigits(Tail(text), 10 * acc + DigitValue(Head(text)))

\* parseInt(text): an optional sign and the leading digits; NaN without a digit
ParseInt(text) ==
    LET neg == text # <<>> /\ Head(text) = "-"
        body == IF neg THEN Tail(text) ELSE text
    IN  IF body = <<>> \/ ~IsDigit(Head(body)) THEN [nan |-> TRUE, n |-> 0]
        ELSE [nan |-> FALSE,
              n |-> IF neg THEN 0 - LeadingDigits(body, 0) ELSE LeadingDigits(body, 0)]

MsgInvalidAge == "Please enter a valid age"
MsgInitFailed == "Failed to initialize Noir. Check console for details."
MsgGenerating == "Generating proof..."
MsgSuccess == "Success! Your age is verified to be 18 or greater."
MsgVerifyFailed == "Verification failed. Please check your input."
MsgError == "An error occurred. Check console for details."

\* The program a compilation returns, by the initializeNoir() call that
\* compiled it: the page load's, or that of click r
PageProgram == 1

RunProgram(r) == 1 + r

\* The toolchain.  compile(fm): a program, or a throw
CompileOutcomes == {"program", "fault"}

\* new UltraHonkBackend(program.bytecode): a backend, or a throw
BackendOutcomes == {"backend", "fault"}

\* Variant of CircuitAccepts: the circuit asserts nothing
CircuitAccepts_Any(age) == TRUE

\* circuit/src/main.nr: fn main(age: u8) { assert(age >= 18); }
CircuitAccepts(age) == age >= 18

\* The values of the parameter type u8
FitsU8(age) == age >= 0 /\ age <= 255

\* noir.execute({ age }): the input is encoded for the ABI, which throws for a
\* value that is not a u8, and the circuit is executed, which throws when the
\* assertion fails; or the executor breaks down
ExecuteOutcomes(age) ==
    {IF ~FitsU8(age) THEN "abi"
     ELSE IF CircuitAccepts(age) THEN "witness" ELSE "constraint",
     "fault"}

\* backend.generateProof(witness)
ProveOutcomes == {"proof", "fault"}

\* backend.verifyProof(proof) of the proof just generated: true, or the
\* verifier returns false or throws
VerifyOutcomes == {"true", "false", "fault"}

\* The outcomes of a call with a toolchain that behaves correctly
Correct(outcome) == outcome \notin {"fault", "false"}

\* The decimal digits of a number, as JSON.stringify and String write it
RECURSIVE NumText(_)
NumText(n) ==
    IF n < 0 THEN <<"-">> \o NumText(0 - n)
    ELSE IF n < 10 THEN <<DecimalDigits[n + 1]>>
    ELSE NumText(n \div 10) \o <<DecimalDigits[(n % 10) + 1]>>

\* JSON.stringify(value) without a replacer, as a sequence of characters (a
\* string's content and a property name are one element each).  A Uint8Array is
\* written as an object with its indices as property names; a property whose
\* value is undefined is left out.
RECURSIVE JsonText(_)
RECURSIVE JsonElements(_, _)
RECURSIVE JsonProperties(_, _)
RECURSIVE JsonIndexed(_, _)
JsonElements(elems, i) ==
    IF i > Len(elems) THEN <<>>
    ELSE <<",">> \o (IF elems[i].t = "undefined" THEN <<"null">>
                     ELSE JsonText(elems[i]))
         \o JsonElements(elems, i + 1)

JsonProperties(props, i) ==
    IF i > Len(props) THEN <<>>
    ELSE (IF props[i].v.t = "undefined" THEN <<>>
          ELSE <<",", "\"", props[i].k, "\"", ":">> \o JsonText(props[i].v))
         \o JsonProperties(props, i + 1)

JsonIndexed(bytes, i) ==
    IF i > Len(bytes) THEN <<>>
    ELSE <<",", "\"">> \o NumText(i - 1) \o <<"\"", ":">> \o NumText(bytes[i])
         \o JsonIndexed(bytes, i + 1)

JsonText(value) ==
    LET Braced(open, inner, close) ==
            <<open>> \o (IF inner = <<>> THEN <<>> ELSE Tail(inner)) \o <<close>>
    IN  CASE value.t = "num" -> NumText(value.n)
          [] value.t = "str" -> <<"\"", value.s, "\"">>
          [] value.t = "null" -> <<"null">>
          [] value.t = "arr" -> Braced("[", JsonElements(value.a, 1), "]")
          [] value.t = "obj" -> Braced("{", JsonProperties(value.o, 1), "}")
          [] value.t = "Uint8Array" -> Braced("{", JsonIndexed(value.b, 1), "}")

\* Date.now() at the call of serializeProof of click r: the clock has moved on
\* between two calls
ClockAt(r) == 1000 + r

Times == {ClockAt(r) : r \in 1..MaxRuns}

\* What backend.generateProof returns to click r: the proof bytes, and the
\* public inputs, of which the circuit has none
ProofOf(r) == [proof |-> Uint8Array(<<r, 255>>), publicInputs |-> JArr(<<>>)]

\* Array.from(typedArray): the bytes as numbers
ArrayFrom(typedArray) ==
    JArr([i \in 1..Len(typedArray.b) |-> JNum(typedArray.b[i])])

\* value || []: undefined, null, 0 and "" are falsy, an array or object is not
OrEmptyArray(value) ==
    IF \/ value.t \in {"undefined", "null"}
       \/ (value.t = "num" /\ value.n = 0)
       \/ (value.t = "str" /\ value.s = "")
    THEN JArr(<<>>) ELSE value

\* serializeProof(proof) when Date.now() is now
SerializeProof(proof, now) ==
    JObj(<<Prop("proof", ArrayFrom(proof.proof)),
           Prop("publicInputs", OrEmptyArray(proof.publicInputs)),
           Prop("timestamp", JNum(now))>>)

\* JSON.stringify(proofData) of click r's proof
ArtifactText(r, now) == JsonText(SerializeProof(ProofOf(r), now))

\* Variant of Finished: the handler does not return
Finished_StillRunning(run, shown, cause) == run

\* A handler that has returned
Finished(run, shown, cause) ==
    [IdleRun EXCEPT !.pc = "done", !.age = run.age, !.shown = shown,
                    !.cause = cause, !.init = run.init]

\* What ended a handler whose call of the executor threw
ExecuteCause(outcome) ==
    CASE outcome = "abi" -> "range"
      [] outcome = "constraint" -> "constraint"
      [] OTHER -> "toolchain"

ProofInit ==
    /\ flow = "twitter"
    /\ storage = [pkce_verifier |-> Null, oauth_state |-> Null,
                  twitter_token |-> Null, twitter_signed_data |-> NoSigned,
                  github_token |-> Null]
    /\ twLogin = IdleTwLogin
    /\ ghLogin = IdleGhLogin
    /\ cb = [c \in 1..MaxCallbacks |-> IdleCallback]
    /\ nLogins = 0
    /\ nCallbacks = 0
    /\ sessionId = 0
    /\ issued = {}
    /\ app = AppUnloaded
    /\ signer = IdleSigner
    /\ ProofPageIdle("compiling")
    /\ VerifyPageIdle
    /\ ServerIdle

\* initializeNoir() of the page load resumes after getCircuit()
PageInitDone ==
    /\ pageInit.pc = "compiling"
    /\ pageInit' = [pc |-> "done"]
    /\ \E outcome \in CompileOutcomes, built \in BackendOutcomes :
          /\ toolFault' = (toolFault \/ ~Correct(outcome) \/ ~Correct(built))
          /\ noir' = IF outcome = "program" THEN PageProgram ELSE noir
          /\ backend' = IF outcome = "program" /\ built = "backend"
                        THEN PageProgram ELSE backend
          /\ resultDiv' = IF outcome = "program" /\ built = "backend"
                          THEN resultDiv ELSE MsgInitFailed
    /\ UNCHANGED <<authVars, signer, verifyVars, serverVars, runs, nRuns, ageProof>>

\* A click on submit: the handler up to its first suspension, in
\* initializeNoir() if noir or backend is not set, else in noir.execute
Submit ==
    /\ pageInit.pc # "unloaded"
    /\ nRuns < MaxRuns
    /\ nRuns' = nRuns + 1
    /\ \E text \in AgeTexts :
          LET r == nRuns + 1
              age == ParseInt(text)
              me == [IdleRun EXCEPT !.age = age.n]
          IN  IF age.nan THEN
                  /\ runs' = [runs EXCEPT ![r] = Finished(me, MsgInvalidAge, "malformed")]
                  /\ resultDiv' = MsgInvalidAge
              ELSE IF noir = 0 \/ backend = 0 THEN
                  /\ runs' = [runs EXCEPT ![r] = [me EXCEPT !.pc = "compiling"]]
                  /\ UNCHANGED resultDiv
              ELSE
                  /\ runs' = [runs EXCEPT ![r] = [me EXCEPT !.pc = "executing"]]
                  /\ resultDiv' = MsgGenerating
    /\ UNCHANGED <<authVars, signer, verifyVars, serverVars, noir, backend, pageInit, ageProof, toolFault>>

\* The handler's initializeNoir() resumes after getCircuit() and returns; the
\* handler goes on to noir.execute, which throws a TypeError if noir is still
\* undefined
RunInitDone(r) ==
    /\ runs[r].pc = "compiling"
    /\ \E outcome \in CompileOutcomes, built \in BackendOutcomes :
          LET me == [runs[r] EXCEPT !.init = outcome]
              noirAfter == IF outcome = "program" THEN RunProgram(r) ELSE noir
              backendAfter == IF outcome = "program" /\ built = "backend"
                              THEN RunProgram(r) ELSE backend
          IN  /\ toolFault' = (toolFault \/ ~Correct(outcome) \/ ~Correct(built))
              /\ noir' = noirAfter
              /\ backend' = backendAfter
              /\ IF noirAfter = 0 THEN
                     /\ runs' = [runs EXCEPT ![r] = Finished(me, MsgError, "toolchain")]
                     /\ resultDiv' = MsgError
                 ELSE
                     /\ runs' = [runs EXCEPT ![r] = [me EXCEPT !.pc = "executing"]]
                     /\ resultDiv' = MsgGenerating
    /\ UNCHANGED <<authVars, signer, verifyVars, serverVars, pageInit, nRuns, ageProof>>

\* Where the handler is after noir.execute: in backend.generateProof with the
\* witness, or in the catch block
NextAfterExecute(outcome) == IF outcome = "witness" THEN "proving" ELSE "done"

\* The handler resumes after noir.execute; with a witness it goes on to
\* backend.generateProof, which throws a TypeError if backend is undefined
RunExecuted(r) ==
    /\ runs[r].pc = "executing"
    /\ \E outcome \in ExecuteOutcomes(runs[r].age) :
          LET me == runs[r]
          IN  /\ toolFault' = (toolFault \/ ~Correct(outcome))
              /\ IF NextAfterExecute(outcome) = "proving" /\ backend = 0 THEN
                     /\ runs' = [runs EXCEPT ![r] = Finished(me, MsgError, "toolchain")]
                     /\ resultDiv' = MsgError
                 ELSE IF NextAfterExecute(outcome) = "proving" THEN
                     /\ runs' = [runs EXCEPT ![r] = [me EXCEPT
                                   !.pc = "proving",
                                   !.witness = IF outcome = "witness" THEN r ELSE 0]]
                     /\ UNCHANGED resultDiv
                 ELSE
                     /\ runs' = [runs EXCEPT ![r] =
                                   Finished(me, MsgError, ExecuteCause(outcome))]
                     /\ resultDiv' = MsgError
    /\ UNCHANGED <<authVars, signer, verifyVars, serverVars, noir, backend, pageInit, nRuns, ageProof>>

\* The handler resumes after backend.generateProof
RunProved(r) ==
    /\ runs[r].pc = "proving"
    /\ \E outcome \in ProveOutcomes :
          LET me == runs[r]
          IN  /\ toolFault' = (toolFault \/ ~Correct(outcome))
              /\ IF outcome = "proof" THEN
                     /\ runs' = [runs EXCEPT ![r] = [me EXCEPT
                                   !.pc = "verifying", !.proof = r]]
                     /\ UNCHANGED resultDiv
                 ELSE
                     /\ runs' = [runs EXCEPT ![r] = Finished(me, MsgError, "toolchain")]
                     /\ resultDiv' = MsgError
    /\ UNCHANGED <<authVars, signer, verifyVars, serverVars, noir, backend, pageInit, nRuns, ageProof>>

\* Variant of StoreIfValid: an artifact already in the slot is kept
StoreIfValid_KeepFirst(store, artifact, isValid) ==
    IF isValid /\ store = NoArtifact THEN artifact ELSE store

\* Variant of StoreIfValid: the artifact is stored whatever the verifier said
StoreIfValid_Always(store, artifact, isValid) == artifact

\* localStorage's ageProof after the handler's if (isValid)
StoreIfValid(store, artifact, isValid) == IF isValid THEN artifact ELSE store

\* The handler resumes after backend.verifyProof
RunVerified(r) ==
    /\ runs[r].pc = "verifying"
    /\ \E outcome \in VerifyOutcomes :
          LET me == runs[r]
              isValid == outcome = "true"
          IN  /\ toolFault' = (toolFault \/ ~Correct(outcome))
              /\ IF outcome = "fault" THEN
                     /\ runs' = [runs EXCEPT ![r] = Finished(me, MsgError, "toolchain")]
                     /\ resultDiv' = MsgError
                     /\ UNCHANGED ageProof
                 ELSE
                     /\ ageProof' = StoreIfValid(ageProof, ArtifactText(me.proof, ClockAt(r)),
                                                 isValid)
                     /\ runs' = [runs EXCEPT ![r] =
                           IF isValid THEN Finished(me, MsgSuccess, "verified")
                           ELSE Finished(me, MsgVerifyFailed, "unverified")]
                     /\ resultDiv' = IF isValid THEN MsgSuccess ELSE MsgVerifyFailed
    /\ UNCHANGED <<authVars, signer, verifyVars, serverVars, noir, backend, pageInit, nRuns>>

ProofNext ==
    \/ PageInitDone
    \/ Submit
    \/ \E r \in 1..MaxRuns : RunInitDone(r)
    \/ \E r \in 1..MaxRuns : RunExecuted(r)
    \/ \E r \in 1..MaxRuns : RunProved(r)
    \/ \E r \in 1..MaxRuns : RunVerified(r)

ProofSpec == ProofInit /\ [][ProofNext]_vars

\* The proof page when every call of the toolchain that is awaited returns or
\* throws: the continuation of an await runs once the call has settled
ProofFairness ==
    /\ WF_vars(PageInitDone)
    /\ \A r \in 1..MaxRuns :
          /\ WF_vars(RunInitDone(r))
          /\ WF_vars(RunExecuted(r))
          /\ WF_vars(RunProved(r))
          /\ WF_vars(RunVerified(r))

\* A click on "submit" while fewer than MaxFairRuns requests were made
FairSubmit == nRuns < MaxFairRuns /\ Submit

ProofFairNext ==
    \/ PageInitDone
    \/ FairSubmit
    \/ \E r \in 1..MaxRuns : RunInitDone(r)
    \/ \E r \in 1..MaxRuns : RunExecuted(r)
    \/ \E r \in 1..MaxRuns : RunProved(r)
    \/ \E r \in 1..MaxRuns : RunVerified(r)

ProofFairSpec == ProofInit /\ [][ProofFairNext]_vars /\ ProofFairness

\* ------------------------------------------------------ verification page
\* src/verification.js declares noir, backend, getCircuit, initializeNoir and
\* showResult as src/index.js does; the page load's initializeNoir() is
\* PageInitDone.

\* JSON.parse.  A parse of a prefix of the text: the value and the rest of the
\* text, or a failure
ParseFailure == [ok |-> FALSE, v |-> JNull, rest |-> <<>>]

Parsed(value, rest) == [ok |-> TRUE, v |-> value, rest |-> rest]

\* The text after its first n characters
Drop(text, n) == SubSeq(text, n + 1, Len(text))

\* The number of digits the text starts with
RECURSIVE DigitCount(_)
DigitCount(text) ==
    IF text = <<>> \/ ~IsDigit(Head(text)) THEN 0 ELSE 1 + DigitCount(Tail(text))

ParseNumber(text) ==
    LET neg == Head(text) = "-"
        body == IF neg THEN Tail(text) ELSE text
        n == DigitCount(body)
        magnitude == LeadingDigits(body, 0)
    IN  IF n = 0 THEN ParseFailure
        ELSE Parsed(JNum(IF neg THEN 0 - magnitude ELSE magnitude), Drop(body, n))

RECURSIVE ParseValue(_)
RECURSIVE ParseElements(_, _)
RECURSIVE ParseMembers(_, _)
\* The elements of an array after "[" or ",", up to "]"
ParseElements(text, acc) ==
    LET elem == ParseValue(text)
    IN  IF ~elem.ok \/ elem.rest = <<>> THEN ParseFailure
        ELSE IF Head(elem.rest) = "," THEN
            ParseElements(Tail(elem.rest), Append(acc, elem.v))
        ELSE IF Head(elem.rest) = "]" THEN
            Parsed(JArr(Append(acc, elem.v)), Tail(elem.rest))
        ELSE ParseFailure

\* The members of an object after "{" or ",", up to "}"
ParseMembers(text, acc) ==
    IF Len(text) < 4 \/ text[1] # "\"" \/ text[3] # "\"" \/ text[4] # ":"
    THEN ParseFailure
    ELSE LET member == ParseValue(Drop(text, 4))
             props == Append(acc, Prop(text[2], member.v))
         IN  IF ~member.ok \/ member.rest = <<>> THEN ParseFailure
             ELSE IF Head(member.rest) = "," THEN
                 ParseMembers(Tail(member.rest), props)
             ELSE IF Head(member.rest) = "}" THEN
                 Parsed(JObj(props), Tail(member.rest))
             ELSE ParseFailure

ParseValue(text) ==
    IF text = <<>> THEN ParseFailure
    ELSE CASE Head(text) = "null" -> Parsed(JNull, Tail(text))
           [] Head(text) = "\"" ->
                IF Len(text) >= 3 /\ text[3] = "\""
                THEN Parsed(JStr(text[2]), Drop(text, 3)) ELSE ParseFailure
           [] Head(text) = "[" ->
                IF Len(text) >= 2 /\ text[2] = "]"
                THEN Parsed(JArr(<<>>), Drop(text, 2))
                ELSE ParseElements(Tail(text), <<>>)
           [] Head(text) = "{" ->
                IF Len(text) >= 2 /\ text[2] = "}"
                THEN Parsed(JObj(<<>>), Drop(text, 2))
                ELSE ParseMembers(Tail(text), <<>>)
           [] Head(text) = "-" \/ IsDigit(Head(text)) -> ParseNumber(text)
           [] OTHER -> ParseFailure

\* JSON.parse(jsonString): the value, or a SyntaxError (ok is FALSE)
JsonParse(jsonString) ==
    LET whole == ParseValue(jsonString)
    IN  IF whole.ok /\ whole.rest = <<>> THEN whole ELSE ParseFailure

\* data[name]: undefined for a property an object does not have and for any
\* property name of a number, string or array that is not its own
Member(data, name) ==
    IF data.t = "obj" /\ HasProp(data, name) THEN GetProp(data, name)
    ELSE JUndefined

\* Number(string) for the strings that occur in the model's inputs: a decimal
\* numeral gives its value, "" gives 0, anything else NaN
StringToNumber(str) ==
    CASE str = "7" -> [nan |-> FALSE, n |-> 7]
      [] str = "" -> [nan |-> FALSE, n |-> 0]
      [] OTHER -> [nan |-> TRUE, n |-> 0]

\* The byte a Uint8Array stores for an element: the number modulo 256, with NaN
\* and every value that is not numeric stored as 0
ToUint8(value) ==
    CASE value.t = "num" -> value.n % 256
      [] value.t = "str" -> StringToNumber(value.s).n % 256
      [] OTHER -> 0

\* new Uint8Array(value): the bytes, or a RangeError (ok is FALSE).  An array
\* gives its elements as bytes, a number or numeric string that many zero
\* bytes, and undefined, null and an object without a length no bytes
NewUint8Array(value) ==
    LET Zeros(n) == [i \in 1..n |-> 0]
        Sized(n) == IF n < 0 THEN [ok |-> FALSE, u |-> Uint8Array(<<>>)]
                    ELSE [ok |-> TRUE, u |-> Uint8Array(Zeros(n))]
    IN  CASE value.t = "arr" ->
                [ok |-> TRUE,
                 u |-> Uint8Array([i \in 1..Len(value.a) |-> ToUint8(value.a[i])])]
          [] value.t = "num" -> Sized(value.n)
          [] value.t = "str" -> Sized(StringToNumber(value.s).n)
          [] OTHER -> [ok |-> TRUE, u |-> Uint8Array(<<>>)]

\* deserializeProof(data): the proof data, or a throw (ok is FALSE): the
\* TypeError of null.proof, or the RangeError of new Uint8Array
DeserializeProof(data) ==
    IF data.t = "null" \/ ~NewUint8Array(Member(data, "proof")).ok
    THEN [ok |-> FALSE, proofData |-> NoProofData]
    ELSE [ok |-> TRUE,
          proofData |-> [proof |-> NewUint8Array(Member(data, "proof")).u,
                         publicInputs |-> OrEmptyArray(Member(data, "publicInputs"))]]

\* parseProofData(jsonString): every throw of JSON.parse and deserializeProof
\* is thrown on as the Error "Invalid proof format" (ok is FALSE)
ParseProofData(jsonString) ==
    IF ~JsonParse(jsonString).ok THEN [ok |-> FALSE, proofData |-> NoProofData]
    ELSE DeserializeProof(JsonParse(jsonString).v)

\* proofText.trim() of a text whose white space is the character " "
RECURSIVE TrimStart(_)
TrimStart(text) ==
    IF text # <<>> /\ Head(text) = " " THEN TrimStart(Tail(text)) ELSE text

RECURSIVE TrimEnd(_)
TrimEnd(text) ==
    IF text # <<>> /\ text[Len(text)] = " "
    THEN TrimEnd(SubSeq(text, 1, Len(text) - 1)) ELSE text

Trim(text) == TrimEnd(TrimStart(text))

MsgEnterProof == "Please enter a proof to verify."
MsgVerifying == "Verifying proof..."
MsgProofValid == "Success! The proof is valid."
MsgProofInvalid == "Verification failed. The proof is invalid."
MsgInvalidFormat == "Error: Invalid proof format. Please check the JSON structure."
MsgTypeError == "Error: Cannot read properties of undefined"
MsgBackendError == "Error: backend"

\* What the proof textarea may hold: the artifacts of the proof page as it
\* stored them, an artifact with public inputs, an artifact without its time
\* stamp, values that are no artifact, a text that is no JSON, and no text
ProofTexts ==
    {ArtifactText(1, now) : now \in Times}
    \cup {JsonText(v) : v \in
            {JObj(<<Prop("proof", JArr(<<JNum(1), JNum(255)>>)),
                    Prop("publicInputs", JArr(<<JStr("0x19")>>)),
                    Prop("timestamp", JNum(1001))>>),
             JObj(<<Prop("proof", JArr(<<JNum(1), JNum(255)>>))>>),
             JObj(<<Prop("proof", JArr(<<JNum(300), JStr("x"), JNum(-1)>>))>>),
             JObj(<<Prop("proof", JStr("7"))>>),
             JObj(<<Prop("proof", JNum(-1))>>),
             JObj(<<>>),
             JNull}}
    \cup {<<"{", "proof">>, <<" ">>, <<>>}

\* backend.verifyProof(proofData): true for the proof data the prover returned,
\* false for any other; or the verifier throws
VerifyProofOutcomes(proofData) ==
    {IF \E r \in 1..MaxRuns : proofData = ProofOf(r) THEN "true" ELSE "false",
     "fault"}

VerifyInit ==
    /\ flow = "twitter"
    /\ storage = [pkce_verifier |-> Null, oauth_state |-> Null,
                  twitter_token |-> Null, twitter_signed_data |-> NoSigned,
                  github_token |-> Null]
    /\ twLogin = IdleTwLogin
    /\ ghLogin = IdleGhLogin
    /\ cb = [c \in 1..MaxCallbacks |-> IdleCallback]
    /\ nLogins = 0
    /\ nCallbacks = 0
    /\ sessionId = 0
    /\ issued = {}
    /\ app = AppUnloaded
    /\ signer = IdleSigner
    /\ ProofPageIdle("compiling")
    /\ VerifyPageIdle
    /\ ServerIdle

\* A verify handler that has returned
Checked(check, shown, cause) ==
    [IdleCheck EXCEPT !.pc = "done", !.text = check.text, !.shown = shown,
                      !.cause = cause]

\* The handler from showResult("Verifying proof...") to its suspension in
\* backend.verifyProof, or to its return from the catch block: the text is
\* parsed, and the call throws a TypeError if backend is undefined
ParseAndVerify(check, backendNow) ==
    IF ~ParseProofData(check.text).ok THEN
        Checked(check, MsgInvalidFormat, "malformed")
    ELSE IF backendNow = 0 THEN
        Checked(check, MsgTypeError, "toolchain")
    ELSE
        [check EXCEPT !.pc = "verifying",
                      !.proofData = ParseProofData(check.text).proofData,
                      !.shown = MsgVerifying]

\* A click on verify: the handler up to its first suspension, in
\* initializeNoir() if noir or backend is not set, else in backend.verifyProof
VerifyClick ==
    /\ nChecks < MaxChecks
    /\ nChecks' = nChecks + 1
    /\ \E text \in ProofTexts :
          LET k == nChecks + 1
              me == [IdleCheck EXCEPT !.text = text]
              after == IF Trim(text) = <<>> THEN Checked(me, MsgEnterProof, "empty")
                       ELSE IF noir = 0 \/ backend = 0 THEN [me EXCEPT !.pc = "compiling"]
                       ELSE ParseAndVerify(me, backend)
          IN  /\ checks' = [checks EXCEPT ![k] = after]
              /\ resultDiv' = IF after.pc = "compiling" THEN resultDiv ELSE after.shown
    /\ UNCHANGED <<authVars, signer, serverVars, noir, backend, pageInit, runs, nRuns,
                   ageProof, toolFault>>

\* The handler's initializeNoir() resumes after getCircuit() and returns, and
\* the handler goes on
CheckInitDone(k) ==
    /\ checks[k].pc = "compiling"
    /\ \E outcome \in CompileOutcomes, built \in BackendOutcomes :
          LET noirAfter == IF outcome = "program" THEN RunProgram(k) ELSE noir
              backendAfter == IF outcome = "program" /\ built = "backend"
                              THEN RunProgram(k) ELSE backend
              after == ParseAndVerify(checks[k], backendAfter)
          IN  /\ toolFault' = (toolFault \/ ~Correct(outcome) \/ ~Correct(built))
              /\ noir' = noirAfter
              /\ backend' = backendAfter
              /\ checks' = [checks EXCEPT ![k] = after]
              /\ resultDiv' = after.shown
    /\ UNCHANGED <<authVars, signer, serverVars, pageInit, runs, nRuns, ageProof,
                   nChecks>>

\* The handler resumes after backend.verifyProof
CheckVerified(k) ==
    /\ checks[k].pc = "verifying"
    /\ \E outcome \in VerifyProofOutcomes(checks[k].proofData) :
          LET shown == CASE outcome = "true" -> MsgProofValid
                         [] outcome = "false" -> MsgProofInvalid
                         [] OTHER -> MsgBackendError
              cause == CASE outcome = "true" -> "valid"
                         [] outcome = "false" -> "invalid"
                         [] OTHER -> "toolchain"
          IN  /\ toolFault' = (toolFault \/ outcome = "fault")
              /\ checks' = [checks EXCEPT ![k] = Checked(checks[k], shown, cause)]
              /\ resultDiv' = shown
    /\ UNCHANGED <<authVars, signer, serverVars, noir, backend, pageInit, runs, nRuns,
                   ageProof, nChecks>>

VerifyNext ==
    \/ PageInitDone
    \/ VerifyClick
    \/ \E k \in 1..MaxChecks : CheckInitDone(k)
    \/ \E k \in 1..MaxChecks : CheckVerified(k)

VerifySpec == VerifyInit /\ [][VerifyNext]_vars

\* ------------------------------------------------------------ server process
\* The requests a client may send: to each route with everything it needs, and
\* with each of its inputs missing
SampleChallenge == <<"c", "h">>

SampleVerifier == <<"v", "1">>

AuthHeaders ==
    {[scheme |-> "Bearer", token |-> t] : t \in Tokens}
    \cup {[scheme |-> "Basic", token |-> t] : t \in Tokens}
    \cup {NoAuthHeader}

ServerRequests ==
    {[route |-> "twitter/auth", body |-> ServerBody(ch, FreshState(1), Null, Null),
      auth |-> NoAuthHeader] : ch \in {SampleChallenge, Null}}
    \cup {[route |-> "twitter/token", body |-> ServerBody(Null, Null, c, v),
           auth |-> NoAuthHeader] :
             c \in Codes \cup {Null}, v \in {SampleVerifier, Null}}
    \cup {[route |-> "github/auth", body |-> ServerBody(Null, Null, Null, Null),
           auth |-> NoAuthHeader]}
    \cup {[route |-> "github/token", body |-> ServerBody(Null, FreshState(1), c, Null),
           auth |-> NoAuthHeader] : c \in Codes \cup {Null}}
    \cup {[route |-> rt, body |-> ServerBody(Null, Null, Null, Null), auth |-> h] :
             rt \in {"twitter/user", "github/user"}, h \in AuthHeaders}

\* The resource of a second user of the provider
OtherUserData ==
    JObj(<<Prop("id", JStr("2")), Prop("created_at", JStr("2024-02-02"))>>)

\* What the provider may answer to the GET of the user resource, over the
\* tokens of two users
ServerUserOutcomes ==
    ProviderUserOutcomes \cup {[status |-> 200, data |-> OtherUserData]}

\* A line of the log: what console.log or console.error was called with
LogLine(line, value) == [line |-> line, value |-> value]

\* The request logging middleware: it runs before every route
MiddlewareLog(req) ==
    <<LogLine("Request", req.route), LogLine("Headers", req.auth),
      LogLine("Body", req.body)>>

\* A route's handling of a request: the response, the number of requests sent
\* to the provider, whether key.sign was called, and the lines logged
HandleRequest(req, rnd, tokenOutcome, userOutcome) ==
    LET Handled(res, contacted, signed, lines) ==
            [res |-> res, contacted |-> contacted, signed |-> signed, lines |-> lines]
        Failure(res, line) ==
            IF res.status = 500 THEN <<LogLine(line, res.error)>> ELSE <<>>
    IN  CASE req.route = "twitter/auth" ->
               LET res == TwitterAuthRoute(req.body, rnd)
               IN  Handled(res, 0, FALSE,
                       <<LogLine("Received auth request", req.body)>>
                       \o (IF res.status = 200
                           THEN <<LogLine("Generated auth URL", res.url)>>
                           ELSE <<LogLine("No code challenge provided", Null)>>))
          [] req.route = "twitter/token" ->
               LET done == TwitterTokenRoute(req.body, tokenOutcome)
               IN  Handled(done.res, done.posts, FALSE,
                       <<LogLine("Received token exchange request", req.body)>>
                       \o Failure(done.res, "Token exchange error"))
          [] req.route = "twitter/user" ->
               LET done == TwitterUserHandled(req.auth, userOutcome)
               IN  Handled(done.res, done.gets, done.signed,
                       (IF done.res.status = 200
                        THEN <<LogLine("Received user data", userOutcome.data)>>
                        ELSE <<>>)
                       \o Failure(done.res, "User data fetch/sign error"))
          [] req.route = "github/auth" ->
               LET res == GitHubAuthRoute(rnd)
               IN  Handled(res, 0, FALSE,
                       <<LogLine("Generated GitHub auth URL", res.url)>>)
          [] req.route = "github/token" ->
               LET done == GitHubTokenRoute(req.body, tokenOutcome)
               IN  Handled(done.res, done.posts, FALSE,
                       Failure(done.res, "GitHub Token exchange error"))
          [] req.route = "github/user" ->
               LET done == GitHubUserHandled(req.auth, userOutcome)
               IN  Handled(done.res, done.gets, done.signed,
                       Failure(done.res, "GitHub User data fetch error"))

ServerInit ==
    /\ flow = "twitter"
    /\ storage = [pkce_verifier |-> Null, oauth_state |-> Null,
                  twitter_token |-> Null, twitter_signed_data |-> NoSigned,
                  github_token |-> Null]
    /\ twLogin = IdleTwLogin
    /\ ghLogin = IdleGhLogin
    /\ cb = [c \in 1..MaxCallbacks |-> IdleCallback]
    /\ nLogins = 0
    /\ nCallbacks = 0
    /\ sessionId = 0
    /\ issued = {}
    /\ app = AppUnloaded
    /\ signer = IdleSigner
    /\ ProofPageIdle("unloaded")
    /\ VerifyPageIdle
    /\ ServerIdle

\* The server receives a request, logs it, and the route answers it
ServerHandle ==
    /\ nRequests < MaxRequests
    /\ nRequests' = nRequests + 1
    /\ \E req \in ServerRequests, tokenOutcome \in ProviderTokenOutcomes,
          userOutcome \in ServerUserOutcomes :
          LET done == HandleRequest(req, FreshState(2), tokenOutcome, userOutcome)
          IN  /\ requests' = [requests EXCEPT ![nRequests + 1] =
                    [route |-> req.route, body |-> req.body, auth |-> req.auth,
                     status |-> done.res.status, contacted |-> done.contacted,
                     signed |-> done.signed,
                     attestation |-> IF done.signed THEN done.res.data ELSE NoSigned]]
              /\ serverLog' = serverLog \o MiddlewareLog(req) \o done.lines
    /\ UNCHANGED <<authVars, signer, proofVars, verifyVars>>

ServerNext == ServerHandle

ServerSpec == ServerInit /\ [][ServerNext]_vars

\* ------------------------------------------------------------ properties
Callbacks == 1..MaxCallbacks

\* Callback component c has sent the token request of a Twitter session
SentTwitterExchange(c) == cb[c].provider = "twitter" /\ cb[c].sent > 0

\* C1: the PKCE verifier of a stored session is released to a token exchange at
\* most once: of the callbacks that present the state of one session, only one
\* sends a token request; the others fail without sending
C1_VerifierReleasedAtMostOnce ==
    \A c, d \in Callbacks :
        (c # d /\ SentTwitterExchange(c) /\ SentTwitterExchange(d))
            => cb[c].sid # cb[d].sid

\* C2: once a Twitter callback's token exchange has come back, with success or
\* with failure, the session it used is no longer in localStorage
C2_SessionDeletedAfterExchange ==
    \A c \in Callbacks :
        (SentTwitterExchange(c) /\ cb[c].pc \in {"userResp", "done", "failed"})
            => ~(storage.pkce_verifier # Null /\ sessionId = cb[c].sid)

\* C3: a Twitter callback whose state differs from the stored oauth_state, or
\* that finds no stored session, fails with a session error at its first step,
\* sends no token request and leaves localStorage as it was
C3_MismatchedStateFails ==
    [][\A c \in Callbacks :
          (/\ cb[c].provider = "twitter"
           /\ cb[c].pc = "loaded"
           /\ cb'[c].pc # "loaded"
           /\ \/ storage.oauth_state = Null
              \/ storage.pkce_verifier = Null
              \/ cb[c].state # storage.oauth_state)
          => /\ cb'[c].pc = "failed"
             /\ cb'[c].error \in {"Missing required parameters",
                                  "Invalid state parameter"}
             /\ cb'[c].sent = 0
             /\ cb'[c].posts = 0
             /\ storage' = storage]_vars

\* A callback was refused for its state while a session was stored
C3_Witness ==
    \E c \in Callbacks :
        /\ cb[c].provider = "twitter"
        /\ cb[c].pc = "failed"
        /\ cb[c].error = "Invalid state parameter"
        /\ storage.oauth_state # Null

\* C4: in both provider flows a token request goes out only for a redirect whose
\* state is one that was issued when a login was started
C4_ExchangeOnlyForIssuedState ==
    \A c \in Callbacks :
        (cb[c].pc = "tokenResp" /\ cb[c].sent > 0) => cb[c].state \in issued

\* The base64url alphabet of RFC 4648, section 5
B64Url ==
    <<"A","B","C","D","E","F","G","H","I","J","K","L","M","N","O","P",
      "Q","R","S","T","U","V","W","X","Y","Z","a","b","c","d","e","f",
      "g","h","i","j","k","l","m","n","o","p","q","r","s","t","u","v",
      "w","x","y","z","0","1","2","3","4","5","6","7","8","9","-","_">>

\* Bit j (from 0, most significant first) of a byte string, 0 past its end
BitOf(bytes, j) ==
    IF j >= 8 * Len(bytes) THEN 0
    ELSE (bytes[(j \div 8) + 1] \div (2 ^ (7 - (j % 8)))) % 2

\* The k-th group of six bits of a byte string
Sextet(bytes, k) ==
    32 * BitOf(bytes, 6 * k - 6) + 16 * BitOf(bytes, 6 * k - 5)
    + 8 * BitOf(bytes, 6 * k - 4) + 4 * BitOf(bytes, 6 * k - 3)
    + 2 * BitOf(bytes, 6 * k - 2) + BitOf(bytes, 6 * k - 1)

\* Unpadded base64url by its definition: one character per group of six bits
Base64UrlNoPad(bytes) ==
    [k \in 1..((8 * Len(bytes) + 5) \div 6) |-> B64Url[Sextet(bytes, k) + 1]]

\* Byte values that exercise every special character of base64 ('+' is 62,
\* '/' is 63) in every position of a group
SampleBytes == {0, 62, 63, 100, 248, 251, 255}

\* Digests of every length up to one more than a digest's, so that every
\* padding case (length 0, 1, 2 modulo 3) occurs
SampleDigests == UNION {[1..n -> SampleBytes] : n \in 1..(DigestLen + 1)}

EncodingIsBase64Url ==
    \A d \in SampleDigests : ChallengeEncode(d) = Base64UrlNoPad(d)

\* C5: the challenge a login sends is the unpadded base64url text of the
\* SHA-256 digest of the verifier that login stored, the stored verifier changes
\* only when a login starts or the session is removed, and the verifier a
\* callback sends in its token request is the stored one
C5_ChallengeOfStoredVerifier ==
    [][/\ EncodingIsBase64Url
       /\ (twLogin.pc # "urlResp" /\ twLogin'.pc = "urlResp")
            => /\ storage'.pkce_verifier # Null
               /\ twLogin'.body.code_challenge =
                     Base64UrlNoPad(Sha256(TextEncode(storage'.pkce_verifier)))
       /\ storage'.pkce_verifier # storage.pkce_verifier
            => \/ (twLogin.pc # "urlResp" /\ twLogin'.pc = "urlResp")
               \/ storage'.pkce_verifier = Null
       /\ \A c \in Callbacks :
            (cb[c].provider = "twitter" /\ cb[c].pc = "loaded"
             /\ cb'[c].pc = "tokenResp")
                => /\ cb'[c].body.code_verifier = storage.pkce_verifier
                   /\ storage.pkce_verifier # Null]_vars

\* A login has sent its challenge and gone to the provider, and a callback has
\* sent the stored verifier in its token request
C5_Witness ==
    /\ twLogin.pc = "redirected"
    /\ \E c \in Callbacks :
          /\ cb[c].provider = "twitter"
          /\ cb[c].pc = "tokenResp"
          /\ cb[c].body.code_verifier = storage.pkce_verifier
          /\ storage.pkce_verifier # Null

\* sub occurs in s as a run of consecutive characters
Occurs(sub, s) ==
    \E i \in 0..(Len(s) - Len(sub)) : SubSeq(s, i + 1, i + Len(sub)) = sub

\* C6: the authorization URL that POST /api/twitter/auth returns carries the
\* challenge of the request, the method S256 and the state of the request
\* unchanged, and the verifier occurs neither in the request nor in the URL
C6_UrlEmbedsChallengeNotVerifier ==
    (twLogin.pc = "urlResp" /\ Ok(twLogin.res.status)) =>
        LET url == twLogin.res.url
        IN  /\ HasParam(url, "code_challenge")
            /\ ParamText(url, "code_challenge") = twLogin.body.code_challenge
            /\ HasParam(url, "code_challenge_method")
            /\ ParamText(url, "code_challenge_method") = <<"S256">>
            /\ HasParam(url, "state")
            /\ ParamText(url, "state") = twLogin.body.state
            /\ twLogin.verifier # Null
            /\ ~Occurs(twLogin.verifier, twLogin.body.code_challenge)
            /\ ~Occurs(twLogin.verifier, twLogin.body.state)
            /\ \A i \in 1..Len(url.query) : ~Occurs(twLogin.verifier, url.query[i].v)

\* The login holds the URL the route built from its challenge and state
C6_Witness ==
    /\ twLogin.pc = "urlResp"
    /\ Ok(twLogin.res.status)
    /\ twLogin.body.code_challenge # Null
    /\ twLogin.body.state # Null
    /\ HasParam(twLogin.res.url, "code_challenge")

\* C7: when the provider answers the code exchange with a non-2xx status, the
\* token route's response is a rejection that carries the provider's error
\* code and no token; a response carries a token only if the provider issued it
C7_RejectionCarriesProviderError ==
    \A c \in Callbacks :
        (cb[c].pc = "tokenResp" /\ cb[c].posts > 0) =>
            /\ ~Ok(cb[c].upstream.status)
                 => /\ ~Ok(cb[c].res.status)
                    /\ cb[c].res.error = cb[c].upstream.error
                    /\ cb[c].res.access_token = Null
            /\ cb[c].res.access_token # Null
                 => cb[c].res.access_token = cb[c].upstream.access_token

C9_UnauthorizedIsDistinct ==
    \A c \in Callbacks :
        (cb[c].pc = "userResp" /\ cb[c].upstream.status # 0) =>
            (cb[c].res.status = 401 <=> cb[c].upstream.status = 401)

\* The token response a callback holds reports a failed exchange: the request
\* was rejected or never answered, or (GitHub) the answer has no access token
ExchangeFailed(c) ==
    \/ ~Ok(cb[c].res.status)
    \/ cb[c].provider = "github" /\ cb[c].res.access_token = Null

Signed == signer.pc # "idle"

\* The verifier has decided on a payload presented in the given way
Verified(kind) == signer.pc = "verified" /\ signer.kind = kind

\* C11: the signer computes the same serialization, and so the same digest, for
\* every order of the properties of the resource, at every nesting level
C11_SerializationOrderIndependent ==
    Signed =>
        \A q \in PermuteKeys(signer.userData) :
            /\ SerializeUserData(q) = SerializeUserData(signer.userData)
            /\ SignUserData(q).messageHash = signer.att.messageHash

\* A payload with two properties inside public_metrics was presented in another
\* order and verified
C11_Witness ==
    /\ Verified("permuted")
    /\ signer.valid
    /\ HasProp(signer.userData, "public_metrics")
    /\ Len(GetProp(signer.userData, "public_metrics").o) = 2
    /\ signer.presented # signer.userData

\* C12: the signature of an attestation verifies for the digest recomputed from
\* its payload, and after a change of the value of any field of the payload, at
\* any depth, the recomputed digest differs and the signature does not verify
C12_AnyMutationInvalidates ==
    /\ Verified("same") => signer.valid
    /\ Verified("tampered")
         => /\ RecomputedHash(signer.presented) # signer.att.messageHash
            /\ ~signer.valid

\* The presented payload is the signed one with another value of its top-level
\* id and nothing else changed
TopLevelIdChanged ==
    /\ HasProp(signer.att.twitter_data, "id")
    /\ HasProp(signer.att.twitter_data, "created_at")
    /\ \E i \in 1..Len(signer.att.twitter_data.o) :
          /\ signer.att.twitter_data.o[i].k = "id"
          /\ Len(signer.presented.o) = Len(signer.att.twitter_data.o)
          /\ signer.presented.o[i].v # signer.att.twitter_data.o[i].v
          /\ signer.presented.o =
                [signer.att.twitter_data.o EXCEPT ![i] = signer.presented.o[i]]
          /\ signer.presented.o[i].k = "id"

\* C13: a payload with top-level id and created_at, presented again with
\* another id and the original signature, has a recomputed digest different
\* from the signed one and fails verification
C13_ChangedIdFailsVerification ==
    (signer.pc \in {"presented", "verified"} /\ signer.kind = "tampered"
     /\ TopLevelIdChanged)
        => /\ RecomputedHash(signer.presented) # signer.att.messageHash
           /\ signer.pc = "verified" => ~signer.valid

\* The attestation over id "1" and created_at "2023-01-01" was presented with
\* id "2" and refused
C13_Witness ==
    /\ Verified("tampered")
    /\ TopLevelIdChanged
    /\ Len(signer.att.twitter_data.o) = 2
    /\ GetProp(signer.att.twitter_data, "id") = JStr("1")
    /\ GetProp(signer.presented, "id") = JStr("2")
    /\ GetProp(signer.presented, "created_at") = JStr("2023-01-01")
    /\ ~signer.valid

Runs == 1..MaxRuns

\* The moves of a handler from one suspension to the next
StageOrder ==
    {<<"unused", "compiling">>, <<"unused", "executing">>, <<"unused", "done">>,
     <<"compiling", "executing">>, <<"compiling", "done">>,
     <<"executing", "proving">>, <<"executing", "done">>,
     <<"proving", "verifying">>, <<"proving", "done">>,
     <<"verifying", "done">>}

\* C14: a proof request goes through compile, execute, prove, verify, store in
\* this order, and no stage is called before the one before it succeeded: a
\* request that compiles goes on to the executor only if its compilation
\* returned a program, the executor is called only with a compiled program,
\* the prover only with the witness the executor returned to this request, the
\* verifier only with the proof the prover returned to this request, and the
\* artifact of a request is stored only by its step after the verifier
C14_StagesInOrder ==
    [][\A r \in Runs :
          /\ runs'[r].pc # runs[r].pc => <<runs[r].pc, runs'[r].pc>> \in StageOrder
          /\ (runs[r].pc = "compiling" /\ runs'[r].pc = "executing")
               => noir' = RunProgram(r)
          /\ runs'[r].pc = "executing" => noir' # 0
          /\ runs'[r].pc = "proving" => runs'[r].witness = r
          /\ runs'[r].pc = "verifying"
               => (runs'[r].witness = r /\ runs'[r].proof = r)
          /\ (ageProof' # ageProof /\ \E now \in Times : ageProof' = ArtifactText(r, now))
               => (runs[r].pc = "verifying" /\ runs[r].proof = r
                   /\ runs'[r].pc = "done")]_vars

\* C15: the stored ageProof is the artifact of a request whose self-verification
\* returned true, and success is shown only by such a request
C15_StoredOnlyIfVerified ==
    /\ ageProof # NoArtifact
         => \E r \in Runs, now \in Times :
                ageProof = ArtifactText(r, now) /\ runs[r].cause = "verified"
    /\ \A r \in Runs : runs[r].shown = MsgSuccess => runs[r].cause = "verified"
    /\ resultDiv = MsgSuccess => \E r \in Runs : runs[r].cause = "verified"

\* One request failed its self-verification, and the stored artifact is that of
\* the request that passed
C15_Witness ==
    /\ ageProof # NoArtifact
    /\ \E r \in Runs :
          /\ runs[r].cause = "unverified"
          /\ \A now \in Times : ageProof # ArtifactText(r, now)

\* The initializeNoir() calls that are suspended in getCircuit()
CompilationsInFlight ==
    (IF pageInit.pc = "compiling" THEN 1 ELSE 0)
    + Cardinality({r \in Runs : runs[r].pc = "compiling"})

\* C16: at most one compilation of the circuit is in flight at any time
C16_OneCompilationInFlight == CompilationsInFlight <= 1

\* The handlers that have started the pipeline and not returned
RunsInFlight ==
    {r \in Runs : runs[r].pc \in {"compiling", "executing", "proving", "verifying"}}

\* C17: at most one proof request is in flight at any time
C17_OneRunInFlight == Cardinality(RunsInFlight) <= 1

\* C18: the executor is called only with an age that is a u8
C18_ExecutorGetsOnlyU8 ==
    \A r \in Runs : runs[r].pc = "executing" => FitsU8(runs[r].age)

\* C19: what a request shows for a constraint violation differs from what a
\* request shows for a malformed input or for a failure of the toolchain
C19_ConstraintViolationDistinct ==
    \A r, q \in Runs :
        (runs[r].cause = "constraint" /\ runs[q].cause \in {"malformed", "toolchain"})
            => runs[r].shown # runs[q].shown

\* C20: while the toolchain behaves correctly, a request that returns with an
\* age of 18 to 255 shows success and has stored its artifact, a request that
\* returns with an age of 0 to 17 was stopped by the circuit and shows a
\* failure, and no step of a request with an age below 18 changes ageProof
C20_AgeDecidesOutcome ==
    [][\A r \in Runs :
          /\ (runs[r].pc # "done" /\ runs'[r].pc = "done" /\ ~toolFault'
              /\ runs'[r].cause # "malformed")
               => /\ (runs'[r].age >= 18 /\ runs'[r].age <= 255)
                       => /\ runs'[r].shown = MsgSuccess
                          /\ \E now \in Times : ageProof' = ArtifactText(r, now)
                  /\ (runs'[r].age >= 0 /\ runs'[r].age < 18)
                       => /\ runs'[r].cause = "constraint"
                          /\ runs'[r].shown # MsgSuccess
          /\ (runs'[r] # runs[r] /\ runs'[r].age < 18)
               => ageProof' = ageProof]_vars

\* With a correct toolchain a request with age 25 has stored its artifact, a
\* later request with age 10 was stopped by the circuit, and the artifact is
\* still the first request's
C20_Witness ==
    /\ ~toolFault
    /\ \E r, q \in Runs :
          /\ r < q
          /\ runs[r].pc = "done" /\ runs[r].age = 25 /\ runs[r].shown = MsgSuccess
          /\ runs[q].pc = "done" /\ runs[q].age = 10 /\ runs[q].cause = "constraint"
          /\ \E now \in Times : ageProof = ArtifactText(r, now)

\* C23: every stored artifact names the compiled program that produced it in a
\* circuitId property
C23_ArtifactCarriesCircuitId ==
    ageProof # NoArtifact
        => \E i \in 1..Len(ageProof) : ageProof[i] = "circuitId"

\* C28: noir and backend are written at most once, and a click that finds both
\* set does not compile
C28_CacheWrittenOnce ==
    [][/\ noir # 0 => noir' = noir
       /\ backend # 0 => backend' = backend
       /\ \A r \in Runs :
             (runs[r].pc = "unused" /\ runs'[r].pc = "compiling")
                 => (noir = 0 \/ backend = 0)]_vars

\* C29: noir and backend are both unset, or both set and built from the same
\* compiled program
C29_CacheNeverPartial ==
    \/ noir = 0 /\ backend = 0
    \/ noir # 0 /\ backend = noir

\* C30: a request whose compilation failed is not in the executor, the prover
\* or the verifier, has not shown success and has stored no artifact
C30_FailedCompileEndsRequest ==
    \A r \in Runs :
        runs[r].init = "fault"
            => /\ runs[r].pc \notin {"executing", "proving", "verifying"}
               /\ runs[r].shown # MsgSuccess
               /\ \A now \in Times : ageProof # ArtifactText(r, now)

Checks == 1..MaxChecks

\* C21: what the verification page loads from the text of a saved artifact
\* equals the artifact in its proof bytes, its public inputs and its time stamp
C21_LoadSaveRoundTrip ==
    \A k \in Checks, r \in Runs, now \in Times :
        (checks[k].pc = "verifying" /\ checks[k].text = ArtifactText(r, now))
            => LET saved == SerializeProof(ProofOf(r), now)
                   bytes == GetProp(saved, "proof").a
                   loaded == checks[k].proofData
               IN  /\ loaded.proof.b = [i \in 1..Len(bytes) |-> bytes[i].n]
                   /\ loaded.publicInputs = GetProp(saved, "publicInputs")
                   /\ "timestamp" \in DOMAIN loaded
                   /\ loaded.timestamp = GetProp(saved, "timestamp").n

\* The shape of an artifact: an object whose proof is an array of numbers
\* from 0 to 255
ShapeValid(data) ==
    /\ data.t = "obj"
    /\ HasProp(data, "proof")
    /\ GetProp(data, "proof").t = "arr"
    /\ \A i \in 1..Len(GetProp(data, "proof").a) :
          LET elem == GetProp(data, "proof").a[i]
          IN  elem.t = "num" /\ elem.n >= 0 /\ elem.n <= 255

\* C22: a handler that has parsed a text that is no JSON or has not the shape
\* of an artifact has returned and reported a malformed input; it is not in
\* the verifier and has not been there
C22_MalformedNeverVerified ==
    \A k \in Checks :
        (/\ checks[k].pc \in {"verifying", "done"}
         /\ Trim(checks[k].text) # <<>>
         /\ ~(JsonParse(checks[k].text).ok /\ ShapeValid(JsonParse(checks[k].text).v)))
            => (checks[k].pc = "done" /\ checks[k].cause = "malformed")

Requests == 1..MaxRequests

\* C24: no line of the server's log holds an access token, an authorization
\* code or a verifier that a request carried
C24_NoSecretInLog ==
    \A i \in 1..Len(serverLog) :
        /\ serverLog[i].line = "Headers" => serverLog[i].value.token = Null
        /\ serverLog[i].line \in {"Body", "Received auth request",
                                  "Received token exchange request"}
             => (serverLog[i].value.code = Null
                 /\ serverLog[i].value.code_verifier = Null)

NoCallbackRunning == \A c \in Callbacks : cb[c].pc \in {"unused", "done", "failed"}

\* C26: when no Twitter callback is running, localStorage holds the token and
\* the signed attestation together or neither of them: a callback has stored
\* both or has changed nothing
C26_CallbackAllOrNothing ==
    (flow = "twitter" /\ NoCallbackRunning)
        => (storage.twitter_token = Null <=> storage.twitter_signed_data = NoSigned)

\* C27: of two Twitter callbacks that are suspended at the same time, at most
\* one has sent a token request with the verifier of a session
C27_ConcurrentCallbacksOneExchange ==
    \A c, d \in Callbacks :
        (/\ c # d
         /\ cb[c].pc \in {"tokenResp", "userResp"}
         /\ cb[d].pc \in {"tokenResp", "userResp"}
         /\ SentTwitterExchange(c) /\ SentTwitterExchange(d))
            => cb[c].sid # cb[d].sid


\* The AuthorizationSession login attempt n puts in client storage
LoginSession(n) ==
    [pkce_verifier |-> GeneratePKCEChallenge(FreshArray(n)).verifier,
     oauth_state |-> FreshState(n)]

\* The AuthorizationSession client storage holds
StoredSession ==
    [pkce_verifier |-> storage.pkce_verifier, oauth_state |-> storage.oauth_state]

\* C31: when the latest Twitter login attempt has ended in the error message,
\* client storage does not hold the session that attempt generated (the
\* values are fresh, so storage "as it was before the attempt" cannot hold them)
C31_FailedLoginLeavesNoSession ==
    (twLogin.pc = "error" /\ sessionId > 0) => StoredSession # LoginSession(sessionId)

\* C35: a token held in client storage is an access token a provider issued
C35_StoredTokenWasIssued ==
    /\ storage.twitter_token # Null => storage.twitter_token \in Tokens
    /\ storage.github_token # Null => storage.github_token \in Tokens


\* The artifact run r stores: its own proof, serialized at its own time
RunArtifact(r) == ArtifactText(r, ClockAt(r))

\* C32: a run that passes self-verification leaves its own artifact in the
\* ageProof slot, whatever the slot held, and the slot changes in no other way:
\* what it holds is at all times nothing or the complete artifact of one run
C32_LastFinisherOwnsSlot ==
    [][/\ \A r \in Runs :
             (runs[r].pc = "verifying" /\ runs'[r].cause = "verified")
                => ageProof' = RunArtifact(r)
       /\ ageProof' # ageProof
             => \E r \in Runs : /\ runs[r].pc = "verifying"
                                /\ runs'[r].cause = "verified"
                                /\ ageProof' = RunArtifact(r)]_vars

\* Two runs overlapped and both passed self-verification: the run started
\* first finished last, and the slot holds its artifact
C32_Witness ==
    /\ runs[1].cause = "verified"
    /\ runs[2].cause = "verified"
    /\ ageProof = RunArtifact(1)

\* The messages that end a request
TerminalMessages == {MsgSuccess, MsgVerifyFailed, MsgError}

\* C33: a request that has passed the numeric input check and awaits the
\* toolchain eventually returns with a terminal message shown
C33_EveryRequestTerminates ==
    \A r \in Runs :
        (runs[r].pc \in {"compiling", "executing", "proving", "verifying"})
            ~> (runs[r].pc = "done" /\ runs[r].shown \in TerminalMessages)

\* A request that had to compile the circuit itself went through every stage
\* and ended with its artifact stored and the success shown
C33_Witness ==
    \E r \in Runs :
        /\ runs[r].pc = "done" /\ runs[r].init = "program"
        /\ runs[r].shown = MsgSuccess /\ resultDiv = MsgSuccess
        /\ ageProof = RunArtifact(r)


\* C34: every attestation the server process issued carries a public key, and
\* any two of them carry the same one
C34_OneKeyPerProcess ==
    \A n, m \in Requests :
        (requests[n].signed /\ requests[m].signed)
            => /\ requests[n].attestation.publicKey # NoSigned.publicKey
               /\ requests[n].attestation.publicKey = requests[m].attestation.publicKey

\* The process issued attestations over the resources of two users
C34_Witness ==
    \E n, m \in Requests :
        /\ requests[n].signed /\ requests[m].signed
        /\ requests[n].attestation.twitter_data # requests[m].attestation.twitter_data
        /\ EcVerify(requests[n].attestation.messageHash,
                    requests[n].attestation.signature,
                    requests[m].attestation.publicKey)


\* A click on the disconnect button of a provider has been handled
Disconnected(provider) ==
    /\ Connected(storage, provider)
    /\ ~Connected(storage', provider)
    /\ app'.view = app.view

C37_SessionFromOneAttempt ==
    \/ StoredSession = [pkce_verifier |-> Null, oauth_state |-> Null]
    \/ \E n \in 1..nLogins : StoredSession = LoginSession(n)

\* A second login attempt replaced the session of the first, whose callback
\* had been loaded
C37_Witness ==
    /\ nLogins = 2
    /\ StoredSession = LoginSession(2)
    /\ \E c \in Callbacks : cb[c].pc # "unused"

====
